---------------------------- MODULE Spec2Model ----------------------------
(***************************************************************************)
(* A model of the real-time execution and risk-control pipeline of Qokx:   *)
(* the order state engine (OrderExecutionEngine, OrderManager), the        *)
(* position ledger (Position, PositionManager), the risk manager           *)
(* (RealtimeRiskManager) and the execution bridge                          *)
(* (StrategyExecutionBridge).                                              *)
(*                                                                         *)
(* Each component has its own specification over the shared variable list; *)
(* a component's actions leave the other components' variables unchanged.  *)
(* Decimal and float quantities are modelled as integers in fixed units    *)
(* (see the unit definitions of each component).                           *)
(***************************************************************************)
EXTENDS Integers, Sequences, FiniteSets, TLC

VARIABLES
    \* ---- OrderExecutionEngine (src/src/execution/order_execution_engine.py)
    orders,            \* self.orders: order number -> Order
    order_counter,     \* self.order_counter
    last_return,       \* what the last engine operation returned to its caller
    \* ---- OrderManager (src/src/execution/order_manager.py)
    om_orders,         \* self.orders: order number -> Order
    om_order_counter,  \* self.order_counter
    open_orders,       \* self.open_orders (a list of order numbers)
    filled_orders,     \* self.filled_orders (a list of order numbers)
    \* ---- PositionManager (src/src/utils/position_manager.py)
    positions,         \* self.positions: position number -> Position
    position_counter,  \* self.position_counter
    \* ---- RealtimeRiskManager (src/src/risk/realtime_risk_manager.py) and
    \*      what it reads from its collaborators
    rm_cash,            \* the ledger's cash plus realized PnL
    rm_position,        \* the ledger's position in the traded symbol
    today_realized_pnl, \* base_risk_manager.today_realized_pnl
    dynamic_limits,     \* self.dynamic_limits
    portfolio_metrics,  \* self.portfolio_metrics (the fields admission reads)
    tick,               \* data_processor.get_latest_tick(symbol)
    volatility,         \* what _calculate_volatility(symbol) returns, basis points
    market_stress,      \* what _calculate_market_stress() returns, basis points
    risk_stats,         \* total_risk_checks, blocked_trades, reduced_trades
    risk_request,       \* the arguments of the last check_trading_risk call
    risk_result,        \* the RiskCheckResult that call returned
    \* ---- StrategyExecutionBridge
    \*      (src/src/trading/strategy_execution_bridge.py), the signal source
    \*      and the exchange
    bridge_status,      \* self.status
    is_running,         \* self.is_running
    handlers,           \* times start() has registered the bridge's callbacks
    requests,           \* every SignalExecutionRequest created so far
    signal_queue,       \* self.signal_queue (request numbers)
    blocked_puts,       \* callers suspended in signal_queue.put
    pending_requests,   \* self.pending_requests (request numbers)
    tasks,              \* the workers and the manual caller: position, request
    monitor_pc,         \* position of _monitoring_task
    overdue,            \* pending requests older than execution_timeout
    metrics,            \* self.metrics
    execution_history,  \* self.execution_history
    exchange_orders,    \* orders handed to execution_engine.place_order
    delivered,          \* FILLED notifications delivered, per order
    stop_pc,            \* position of a stop() call: idle or waiting
    queue_maxsize,      \* maxsize of self.signal_queue
    notified,           \* per request, the callback lists triggered for it
    \* ---- RealtimeRiskManager: the risk events
    risk_events,        \* self.risk_events, the history (oldest first)
    active_events,      \* the keys of self.active_events
    emergency_actions,  \* self.emergency_actions
    events_handled,     \* events _handle_risk_event has been given so far
    \* ---- StrategyExecutionBridge: stop-loss and take-profit
    stop_orders,        \* orders _trigger_stop_loss / _trigger_take_profit
                        \* handed to execution_engine.place_order
    \* ---- RealtimeTradingEngine
    \*      (src/src/trading/realtime_trading_engine.py)
    trading_status,     \* self.state.status
    stop_event,         \* self._stop_event.is_set()
    pause_event,        \* self._pause_event.is_set()
    trading_task,       \* self.trading_task running _trading_loop
    data_task,          \* self.data_task running _data_stream_loop
    loop_iterations,    \* iterations _trading_loop has made
    \* ---- ExecutionEngine (src/src/execution/execution_engine.py)
    position_size       \* self.position_size

engine_vars == <<orders, order_counter, last_return>>

om_vars == <<om_orders, om_order_counter, open_orders, filled_orders>>

pos_vars == <<positions, position_counter>>

risk_vars == <<rm_cash, rm_position, today_realized_pnl, dynamic_limits,
               portfolio_metrics, tick, volatility, market_stress, risk_stats,
               risk_request, risk_result>>

bridge_vars == <<bridge_status, is_running, handlers, requests, signal_queue,
                 blocked_puts, pending_requests, tasks, monitor_pc, overdue,
                 metrics, execution_history, exchange_orders, delivered,
                 stop_pc, queue_maxsize, notified>>

event_vars == <<risk_events, active_events, emergency_actions,
                events_handled>>

trading_vars == <<trading_status, stop_event, pause_event, trading_task,
                  data_task, loop_iterations>>

vars == <<engine_vars, om_vars, pos_vars, risk_vars, bridge_vars, event_vars,
          stop_orders, trading_vars, position_size>>

\* What the operations of one component leave alone
not_engine == <<om_vars, pos_vars, risk_vars, bridge_vars, event_vars,
                stop_orders, trading_vars, position_size>>

not_om == <<engine_vars, pos_vars, risk_vars, bridge_vars, event_vars,
            stop_orders, trading_vars, position_size>>

not_pos == <<engine_vars, om_vars, risk_vars, bridge_vars, event_vars,
             stop_orders, trading_vars, position_size>>

not_risk == <<engine_vars, om_vars, pos_vars, bridge_vars, event_vars,
              stop_orders, trading_vars, position_size>>

\* (of the bridge's operations, only _on_price_update adds to stop_orders)
not_bridge == <<engine_vars, om_vars, pos_vars, event_vars, stop_orders,
                trading_vars, position_size>>

not_events == <<engine_vars, om_vars, pos_vars, bridge_vars, stop_orders,
                trading_vars, position_size>>

not_trading == <<engine_vars, om_vars, pos_vars, risk_vars, bridge_vars,
                 event_vars, stop_orders, position_size>>

\* (the ExecutionEngine works on the OrderManager's orders)
not_execution == <<engine_vars, pos_vars, risk_vars, bridge_vars, event_vars,
                   stop_orders, trading_vars>>

-----------------------------------------------------------------------------
(***************************************************************************)
(* Bounds of the model.                                                    *)
(***************************************************************************)
\* orders the OrderExecutionEngine may create
MaxEngineOrders == 1
\* orders the OrderManager may create
MaxOrders == 2
\* largest requested quantity of an order
MaxQty == 2
\* positions the PositionManager may create
MaxPositions == 1
\* largest size of a position and of a close
MaxSize == 2
\* largest price (entry, mark, close) of the position ledger
MaxPrice == 3
\* admission checks the risk manager is asked for
MaxRiskChecks == 1
\* risk events the risk manager is given
MaxEvents == 2
\* stop-loss and take-profit orders the bridge may emit
MaxStopOrders == 2
\* largest absolute size, in hundredths, of the risk manager's position
MaxRmPosition == 2000
\* self.max_concurrent_executions, the number of workers (5 by default)
max_concurrent_executions == 1
\* self.retry_attempts (config.retry_attempts or 3)
retry_attempts == 3
\* maxsize of self.signal_queue (1000 in the source)
QueueMaxSize == 1
\* a maxsize of self.signal_queue that holds every request created
WideQueueMaxSize == 2
\* requests the strategy and the manual caller may create
MaxSignals == 2
\* times the bridge may be started
MaxStarts == 2
\* times the exchange may deliver the FILLED notification of an order
MaxDeliveries == 2
\* iterations of the trading loop that are counted
MaxIterations == 3

-----------------------------------------------------------------------------
(***************************************************************************)
(* Order state engine: OrderExecutionEngine                                *)
(***************************************************************************)

\* OrderStatus of order_execution_engine.py
OrderStatus == {"pending", "submitted", "partially_filled", "filled",
                "cancelled", "rejected", "expired"}

OrderSide == {"buy", "sell"}

Quantities == 1..MaxQty

\* The keyword arguments a caller hands to update_order: status is the
\* positional parameter of update_status, the others are set with setattr
\* when the Order has the attribute.  has_filled says whether the caller
\* passed filled_quantity at all.
UpdateKwargs == [status : OrderStatus,
                 has_filled : BOOLEAN,
                 filled_quantity : 0..(MaxQty + 1)]

\* Order.__post_init__: a new order is PENDING with nothing filled (the
\* fields the engine's operations read or write)
NewOrder(quantity) ==
    [quantity |-> quantity, status |-> "pending",
     filled_quantity |-> 0, remaining_quantity |-> quantity]

\* Order.update_status(status, **kwargs)
update_status(order, kwargs) ==
    [order EXCEPT !.status = kwargs.status,
                  !.filled_quantity = IF kwargs.has_filled
                                      THEN kwargs.filled_quantity
                                      ELSE @]

\* A variant of Order.is_active that leaves out PARTIALLY_FILLED
is_active_without_partial(order) ==
    order.status \in {"pending", "submitted"}

\* Order.is_active
is_active(order) ==
    order.status \in {"pending", "submitted", "partially_filled"}

\* OrderExecutionEngine.create_order
create_order(quantity) ==
    /\ order_counter < MaxEngineOrders
    /\ order_counter' = order_counter + 1
    /\ orders' = [n \in 1..(order_counter + 1) |->
                    IF n = order_counter + 1 THEN NewOrder(quantity)
                                             ELSE orders[n]]
    /\ last_return' = "order"
    /\ UNCHANGED not_engine

\* OrderExecutionEngine.update_order(order_id, **kwargs); an id the engine
\* does not hold is modelled by order_id = 0
update_order(order_id, kwargs) ==
    /\ IF order_id \in DOMAIN orders
       THEN /\ orders' = [orders EXCEPT ![order_id] = update_status(@, kwargs)]
            /\ last_return' = "true"
       ELSE /\ orders' = orders
            /\ last_return' = "false"
    /\ UNCHANGED <<order_counter, not_engine>>

\* OrderExecutionEngine.cancel_order(order_id)
cancel_order(order_id) ==
    /\ IF order_id \in DOMAIN orders /\ is_active(orders[order_id])
       THEN /\ orders' = [orders EXCEPT ![order_id] =
                            update_status(@, [status |-> "cancelled",
                                              has_filled |-> FALSE,
                                              filled_quantity |-> 0])]
            /\ last_return' = "true"
       ELSE /\ orders' = orders
            /\ last_return' = "false"
    /\ UNCHANGED <<order_counter, not_engine>>

-----------------------------------------------------------------------------
(***************************************************************************)
(* Order state engine: OrderManager                                        *)
(***************************************************************************)

\* OrderStatus of order_manager.py
OmOrderStatus == {"pending", "open", "filled", "partially_filled",
                  "cancelled", "rejected"}

\* Prices a limit order or a market tick can carry
OmPrices == 1..2

\* list.remove(x): the list without its first occurrence of x
RemoveFirst(s, x) ==
    IF \E i \in 1..Len(s) : s[i] = x
    THEN LET i == CHOOSE i \in 1..Len(s) :
                     s[i] = x /\ \A j \in 1..(i - 1) : s[j] # x
         IN  [k \in 1..(Len(s) - 1) |-> IF k < i THEN s[k] ELSE s[k + 1]]
    ELSE s

\* x in list
InList(s, x) == \E i \in 1..Len(s) : s[i] = x

\* OrderManager.create_market_order
create_market_order(side, quantity) ==
    /\ om_order_counter < MaxOrders
    /\ om_order_counter' = om_order_counter + 1
    /\ om_orders' = [n \in 1..(om_order_counter + 1) |->
                       IF n = om_order_counter + 1
                       THEN [order_type |-> "market", side |-> side,
                             quantity |-> quantity, price |-> 0,
                             status |-> "pending", filled_quantity |-> 0,
                             avg_fill_price |-> 0, commission |-> 0,
                             slippage |-> 0]
                       ELSE om_orders[n]]
    /\ open_orders' = Append(open_orders, om_order_counter + 1)
    /\ UNCHANGED <<filled_orders, not_om>>

\* OrderManager.create_limit_order
create_limit_order(side, quantity, price) ==
    /\ om_order_counter < MaxOrders
    /\ om_order_counter' = om_order_counter + 1
    /\ om_orders' = [n \in 1..(om_order_counter + 1) |->
                       IF n = om_order_counter + 1
                       THEN [order_type |-> "limit", side |-> side,
                             quantity |-> quantity, price |-> price,
                             status |-> "pending", filled_quantity |-> 0,
                             avg_fill_price |-> 0, commission |-> 0,
                             slippage |-> 0]
                       ELSE om_orders[n]]
    /\ open_orders' = Append(open_orders, om_order_counter + 1)
    /\ UNCHANGED <<filled_orders, not_om>>

\* Market prices execute_market_order is called with, in millionths of the
\* quote currency, and the rates it is called with, in basis points (the
\* defaults are commission_rate 0.001 and slippage 0.0005)
MarketPrices == {2000000}

CommissionRates == {10}

SlippageRates == {0, 5}

\* A variant of FillPrice that moves the price up for either side
FillPriceUpwards(side, current_price, slippage) ==
    current_price + (current_price * slippage) \div 10000

\* The fill price of execute_market_order: current_price moved by
\* slippage_amount = current_price * slippage, up for a BUY, down otherwise
FillPrice(side, current_price, slippage) ==
    LET slippage_amount == (current_price * slippage) \div 10000
    IN  IF side = "buy" THEN current_price + slippage_amount
                        ELSE current_price - slippage_amount

\* OrderManager.execute_market_order(order, current_price, commission_rate,
\* slippage): the order is filled whole whatever its status was, and appended
\* to filled_orders
execute_market_order(n, current_price, commission_rate, slippage) ==
    /\ n \in DOMAIN om_orders
    /\ Len(filled_orders) < MaxOrders + 1
    /\ LET fill_price == FillPrice(om_orders[n].side, current_price, slippage)
           commission == (om_orders[n].quantity * fill_price * commission_rate)
                             \div 10000
       IN  om_orders' =
              [om_orders EXCEPT
                  ![n].status = "filled",
                  ![n].filled_quantity = om_orders[n].quantity,
                  ![n].avg_fill_price = fill_price,
                  ![n].commission = commission,
                  ![n].slippage = (current_price * slippage) \div 10000]
    /\ open_orders' = RemoveFirst(open_orders, n)
    /\ filled_orders' = Append(filled_orders, n)
    /\ UNCHANGED <<om_order_counter, not_om>>

\* Whether check_limit_orders fills open limit order n at current_price
LimitTriggered(n, current_price) ==
    /\ om_orders[n].order_type = "limit"
    /\ \/ om_orders[n].side = "buy" /\ current_price <= om_orders[n].price
       \/ om_orders[n].side = "sell" /\ current_price >= om_orders[n].price

\* The elements of list s that are in keep, in list order
RECURSIVE FilterList(_, _)
FilterList(s, keep) ==
    IF s = <<>> THEN <<>>
    ELSE IF Head(s) \in keep THEN <<Head(s)>> \o FilterList(Tail(s), keep)
                             ELSE FilterList(Tail(s), keep)

\* OrderManager.check_limit_orders(current_price)
check_limit_orders(current_price) ==
    LET hit == {n \in DOMAIN om_orders :
                   InList(open_orders, n) /\ LimitTriggered(n, current_price)}
    IN  /\ hit # {}
        /\ om_orders' = [n \in DOMAIN om_orders |->
                           IF n \in hit
                           THEN [om_orders[n] EXCEPT
                                    !.status = "filled",
                                    !.filled_quantity = om_orders[n].quantity,
                                    !.avg_fill_price = om_orders[n].price]
                           ELSE om_orders[n]]
        /\ open_orders' = FilterList(open_orders, DOMAIN om_orders \ hit)
        /\ filled_orders' = filled_orders \o FilterList(open_orders, hit)
        /\ UNCHANGED <<om_order_counter, not_om>>

\* OrderManager.cancel_order(order_id)
OrderManager_cancel_order(n) ==
    /\ n \in DOMAIN om_orders
    /\ om_orders[n].status \in {"pending", "open"}
    /\ om_orders' = [om_orders EXCEPT ![n].status = "cancelled"]
    /\ open_orders' = RemoveFirst(open_orders, n)
    /\ UNCHANGED <<om_order_counter, filled_orders, not_om>>

-----------------------------------------------------------------------------
(***************************************************************************)
(* Position ledger: Position and PositionManager.  Sizes, prices and PnL   *)
(* are Decimals in the source and integers here.                           *)
(***************************************************************************)

PositionSide == {"long", "short"}

PositionStatus == {"open", "closed", "partially_closed"}

Sizes == 1..MaxSize

Prices == 1..MaxPrice

\* Position._calculate_unrealized_pnl: the value it stores in unrealized_pnl
_calculate_unrealized_pnl(pos) ==
    IF pos.side = "long"
    THEN (pos.current_price - pos.entry_price) * pos.size
    ELSE (pos.entry_price - pos.current_price) * pos.size

\* Position.__post_init__ as PositionManager.create_position calls it
NewPosition(side, size, entry_price, current_price) ==
    LET pos == [side |-> side, size |-> size, entry_price |-> entry_price,
                current_price |-> current_price, unrealized_pnl |-> 0,
                realized_pnl |-> 0, status |-> "open"]
    IN  [pos EXCEPT !.unrealized_pnl = _calculate_unrealized_pnl(pos)]

\* Position.update_price
update_price(pos, new_price) ==
    LET moved == [pos EXCEPT !.current_price = new_price]
    IN  [moved EXCEPT !.unrealized_pnl = _calculate_unrealized_pnl(moved)]

\* Position.close_position(close_price, close_size): realizes the PnL of
\* close_size, reduces size and sets the status; unrealized_pnl is not
\* touched
close_position(pos, close_price, close_size) ==
    LET realized == IF pos.side = "long"
                    THEN (close_price - pos.entry_price) * close_size
                    ELSE (pos.entry_price - close_price) * close_size
        size == pos.size - close_size
    IN  [pos EXCEPT !.realized_pnl = @ + realized,
                    !.size = size,
                    !.status = IF size <= 0 THEN "closed"
                                            ELSE "partially_closed"]

\* PositionManager.create_position; current_price = 0 stands for None
create_position(side, size, entry_price, current_price) ==
    /\ position_counter < MaxPositions
    /\ position_counter' = position_counter + 1
    /\ positions' =
          [n \in 1..(position_counter + 1) |->
             IF n = position_counter + 1
             THEN NewPosition(side, size, entry_price,
                              IF current_price = 0 THEN entry_price
                                                   ELSE current_price)
             ELSE positions[n]]
    /\ UNCHANGED not_pos

\* PositionManager.update_position_price
update_position_price(position_id, new_price) ==
    /\ position_id \in DOMAIN positions
    /\ positions' = [positions EXCEPT ![position_id] = update_price(@, new_price)]
    /\ UNCHANGED <<position_counter, not_pos>>

\* PositionManager.close_position(position_id, close_price, close_size);
\* close_size = 0 stands for None (the whole size)
PositionManager_close_position(position_id, close_price, close_size) ==
    /\ position_id \in DOMAIN positions
    /\ positions[position_id].status = "open"
    /\ positions' = [positions EXCEPT ![position_id] =
                        close_position(@, close_price,
                                       IF close_size = 0 THEN @.size
                                                         ELSE close_size)]
    /\ UNCHANGED <<position_counter, not_pos>>

-----------------------------------------------------------------------------
(***************************************************************************)
(* Risk manager: RealtimeRiskManager                                       *)
(*                                                                         *)
(* Units: money in whole currency units; sizes in hundredths of a unit of  *)
(* the traded asset, so size * price is money times 100; every ratio       *)
(* (limits, leverage, volatility, spread, stress) in basis points,         *)
(* 10000 = 1.0.  One symbol is traded.  The input sets are chosen so that  *)
(* the divisions of the source are exact in these units.                   *)
(***************************************************************************)

Abs(x) == IF x < 0 THEN 0 - x ELSE x

Min(a, b) == IF a <= b THEN a ELSE b

\* RiskAction: the actions an admission check returns
RiskAction == {"allow", "reduce", "block"}

\* RiskCheckResult; stage names the check that built it (it stands for the
\* reason text).  max_position_size and suggested_size default to 0.0.
RiskCheckResult(approved, action, max_position_size, suggested_size, stage) ==
    [approved |-> approved, action |-> action,
     max_position_size |-> max_position_size,
     suggested_size |-> suggested_size, stage |-> stage]

\* No check has been made since the state last changed
NoResult == [stage |-> "none"]

NoRequest == [side |-> "none"]

\* DynamicRiskLimits as __init__ builds it from the defaults
DefaultLimits ==
    [max_position_size |-> 1000, max_daily_loss |-> 500, max_drawdown |-> 2000,
     max_leverage |-> 30000, max_correlation |-> 7000]

\* The ledger before the first fill of the symbol
NoPosition == [exists |-> FALSE, size |-> 0, entry_price |-> 0,
               current_price |-> 0]

\* Position Ledger GetPosition(symbol).size, 0.0 when there is none
current_size == IF rm_position.exists THEN rm_position.size ELSE 0

\* size * (current_price - entry_price) of the ledger's position, money * 100
unrealized_x100 ==
    IF rm_position.exists
    THEN rm_position.size * (rm_position.current_price - rm_position.entry_price)
    ELSE 0

\* Position Ledger GetTotalBalance(): cash + realized PnL + unrealized PnL
get_total_balance == rm_cash + (unrealized_x100 \div 100)

\* _calculate_daily_pnl, money * 100: the unrealized PnL of every position
\* whose size is not 0, plus base_risk_manager.today_realized_pnl
_calculate_daily_pnl ==
    (IF rm_position.exists /\ rm_position.size # 0 THEN unrealized_x100 ELSE 0)
    + today_realized_pnl * 100

\* _calculate_current_drawdown as the fraction <<numerator, denominator>>:
\* the peak is taken to be 1.1 times the current balance (both times 10)
_calculate_current_drawdown ==
    LET current_balance == get_total_balance * 10
        peak_balance == get_total_balance * 11
    IN  <<peak_balance - current_balance, peak_balance>>

\* _basic_risk_check(symbol, side, size, price)
_basic_risk_check(side, size, price) ==
    LET account_balance == get_total_balance
        trade_value == size * price
        max_trade_value == account_balance * dynamic_limits.max_position_size
        max_daily_loss == account_balance * dynamic_limits.max_daily_loss
        current_drawdown == _calculate_current_drawdown
    IN  IF account_balance <= 0
        THEN RiskCheckResult(FALSE, "block", 0, 0, "balance")
        ELSE IF trade_value * 100 > max_trade_value
        THEN RiskCheckResult(FALSE, "reduce",
                             max_trade_value \div (price * 100),
                             max_trade_value \div (price * 100), "trade_value")
        ELSE IF _calculate_daily_pnl * 100 < 0 - max_daily_loss
        THEN RiskCheckResult(FALSE, "block", 0, 0, "daily_loss")
        ELSE IF current_drawdown[1] * 10000
                   > dynamic_limits.max_drawdown * current_drawdown[2]
        THEN RiskCheckResult(FALSE, "block", 0, 0, "drawdown")
        ELSE RiskCheckResult(TRUE, "allow", size, size, "basic")

\* _dynamic_position_check(symbol, side, size, price)
_dynamic_position_check(side, size, price) ==
    LET new_size == IF side = "buy" THEN current_size + size
                                    ELSE current_size - size
        account_value == get_total_balance
        position_value == Abs(new_size * price)
        max_single_position == dynamic_limits.max_position_size
        max_size == (account_value * max_single_position) \div (price * 100)
        room == max_size - Abs(current_size)
        suggested_size == IF side = "sell" THEN Min(room, current_size)
                                           ELSE room
    IN  IF position_value * 100 > account_value * max_single_position
        THEN IF Abs(current_size) >= max_size
             THEN RiskCheckResult(FALSE, "block", 0, 0, "position")
             ELSE RiskCheckResult(TRUE, "reduce", max_size, suggested_size,
                                  "position")
        ELSE RiskCheckResult(TRUE, "allow", size, size, "position")

\* abs(position.size * position.current_price) / account_balance
position_weight ==
    (Abs(rm_position.size * rm_position.current_price) * 100)
        \div get_total_balance

\* _calculate_concentration_risk over the positions of the ledger (one
\* symbol, so one weight): the Herfindahl index normalised between
\* 1 / len(weights) and 1
_calculate_concentration_risk ==
    LET herfindahl_index == (position_weight * position_weight) \div 10000
        max_concentration == 10000
        min_concentration == 10000 \div 1
    IN  IF max_concentration > min_concentration
        THEN Min(((herfindahl_index - min_concentration) * 10000)
                     \div (max_concentration - min_concentration), 10000)
        ELSE 0

\* _calculate_liquidity_risk: the spread proxy of each position that has a
\* tick, weighted by the position's weight
_calculate_liquidity_risk ==
    LET liquidity_risk == IF tick.quoted THEN Min(tick.spread * 10, 10000)
                                         ELSE 5000
        total_weight == IF tick.present THEN position_weight ELSE 0
    IN  IF total_weight > 0
        THEN (liquidity_risk * position_weight) \div total_weight
        ELSE 0

\* _update_portfolio_metrics: the value of self.portfolio_metrics after the
\* call; it returns early, leaving the stored metrics, when the ledger has
\* no position or the balance is not positive
_update_portfolio_metrics ==
    IF ~rm_position.exists \/ get_total_balance <= 0
    THEN portfolio_metrics
    ELSE [leverage |-> position_weight,
          concentration_risk |-> _calculate_concentration_risk,
          liquidity_risk |-> _calculate_liquidity_risk]

\* _portfolio_risk_check(symbol, side, size, price), reading the metrics
\* _update_portfolio_metrics has just stored
_portfolio_risk_check(side, size, price) ==
    LET stored == _update_portfolio_metrics
    IN  IF stored.leverage > dynamic_limits.max_leverage
        THEN RiskCheckResult(FALSE, "block", 0, 0, "leverage")
        ELSE IF stored.concentration_risk > 8000
        THEN RiskCheckResult(FALSE, "reduce", 0, (size * 5) \div 10,
                             "concentration")
        ELSE IF stored.liquidity_risk > 7000
        THEN RiskCheckResult(FALSE, "reduce", 0, (size * 7) \div 10,
                             "liquidity")
        ELSE RiskCheckResult(TRUE, "allow", size, size, "portfolio")

\* _market_condition_check(symbol, side, size, price)
_market_condition_check(side, size, price) ==
    IF ~tick.present
    THEN RiskCheckResult(FALSE, "block", 0, 0, "no_market_data")
    ELSE IF volatility > 1000
    THEN RiskCheckResult(TRUE, "reduce", 0,
                         (size * (10000 - Min(volatility, 5000))) \div 10000,
                         "volatility")
    ELSE IF tick.quoted /\ tick.spread > 100
    THEN RiskCheckResult(TRUE, "reduce", 0, (size * 8) \div 10, "spread")
    ELSE IF market_stress > 8000
    THEN RiskCheckResult(FALSE, "block", 0, 0, "stress")
    ELSE IF market_stress > 6000
    THEN RiskCheckResult(TRUE, "reduce", 0, (size * 6) \div 10, "stress")
    ELSE RiskCheckResult(TRUE, "allow", size, size, "market")

\* _correlation_risk_check(symbol, side, size): the loop skips the position
\* of the symbol itself, so with one symbol traded the total is 0
_correlation_risk_check(side, size) ==
    LET total_correlation_risk == 0
    IN  IF total_correlation_risk > 5000
        THEN RiskCheckResult(FALSE, "reduce", 0,
                             (size * (10000 - total_correlation_risk))
                                 \div 10000, "correlation")
        ELSE RiskCheckResult(TRUE, "allow", size, size, "correlation")

\* What check_trading_risk(symbol, side, size, price) returns: the basic
\* result only when it blocks, then the first of the later results that
\* blocks or reduces, else the final allow
TradingRiskResult(side, size, price) ==
    LET base_result == _basic_risk_check(side, size, price)
        position_result == _dynamic_position_check(side, size, price)
        portfolio_result == _portfolio_risk_check(side, size, price)
        market_result == _market_condition_check(side, size, price)
        correlation_result == _correlation_risk_check(side, size)
    IN  IF base_result.action = "block" THEN base_result
        ELSE IF position_result.action \in {"block", "reduce"}
        THEN position_result
        ELSE IF portfolio_result.action \in {"block", "reduce"}
        THEN portfolio_result
        ELSE IF market_result.action \in {"block", "reduce"}
        THEN market_result
        ELSE IF correlation_result.action \in {"block", "reduce"}
        THEN correlation_result
        ELSE RiskCheckResult(TRUE, "allow", size, size, "all")

\* Whether check_trading_risk gets as far as _portfolio_risk_check, which
\* refreshes self.portfolio_metrics
ReachesPortfolioCheck(side, size, price) ==
    /\ _basic_risk_check(side, size, price).action # "block"
    /\ _dynamic_position_check(side, size, price).action = "allow"

\* Requests an admission check is asked about: sizes 0.5, 5, 10 and 20 at
\* price 100
RiskSizes == {50, 500, 1000, 2000}

RiskPrices == {100}

\* Mark prices of the ledger
MarkPrices == {50, 100}

\* Cash (with realized PnL) the ledger can hold
RmCashValues == {0, 500, 10000}

\* Sizes of the fills the ledger receives: 10 and 20
FillSizes == {1000, 2000}

\* Realized PnL of the day the base risk manager is told
RealizedValues == {0 - 600, 0}

\* TickData of the feed: none yet, a tick without quotes, and quoted ticks
\* whose (ask - bid) / price is 5, 200 and 800 basis points
NoTick == [present |-> FALSE, quoted |-> FALSE, spread |-> 0]

Ticks == {NoTick,
          [present |-> TRUE, quoted |-> FALSE, spread |-> 0],
          [present |-> TRUE, quoted |-> TRUE, spread |-> 5],
          [present |-> TRUE, quoted |-> TRUE, spread |-> 200],
          [present |-> TRUE, quoted |-> TRUE, spread |-> 800]}

\* Market states the feed can produce: the tick, the annualised volatility
\* of the return history and the mean of the stress indicators
MarketScenarios ==
    [tick : Ticks, volatility : {0}, market_stress : {0}]
    \cup [tick : {[present |-> TRUE, quoted |-> TRUE, spread |-> 5]},
          volatility : {0, 2000}, market_stress : {0, 7000, 9000}]

\* What a call of check_trading_risk(symbol, side, size, price) does to the
\* risk manager: the counters, the refreshed portfolio metrics and the
\* result it hands back
CheckEffects(side, size, price) ==
    /\ LET result == TradingRiskResult(side, size, price)
       IN  /\ risk_result' = result
           /\ risk_stats' =
                 [total_risk_checks |-> risk_stats.total_risk_checks + 1,
                  blocked_trades |-> risk_stats.blocked_trades
                      + (IF result.action = "block" THEN 1 ELSE 0),
                  reduced_trades |-> risk_stats.reduced_trades
                      + (IF result.action = "reduce" THEN 1 ELSE 0)]
    /\ risk_request' = [side |-> side, size |-> size, price |-> price]
    /\ portfolio_metrics' = IF ReachesPortfolioCheck(side, size, price)
                            THEN _update_portfolio_metrics
                            ELSE portfolio_metrics

\* RealtimeRiskManager.check_trading_risk(symbol, side, size, price), called
\* on its own
check_trading_risk(side, size, price) ==
    /\ risk_stats.total_risk_checks < MaxRiskChecks
    /\ CheckEffects(side, size, price)
    /\ UNCHANGED <<rm_cash, rm_position, today_realized_pnl, dynamic_limits,
                   tick, volatility, market_stress, not_risk>>

\* The ledger's position after a fill of the given side and size at the
\* entry price with no fee: the signed size moves, the entry price stays and
\* nothing is realized.  The first fill creates the position.
FilledPosition(side, size) ==
    LET position == IF rm_position.exists
                    THEN rm_position
                    ELSE [exists |-> TRUE, size |-> 0, entry_price |-> 100,
                          current_price |-> 100]
    IN  [position EXCEPT !.size = IF side = "buy" THEN @ + size ELSE @ - size]

\* Position Ledger ApplyFill(symbol, side, size, price, fee)
ApplyFill(side, size) ==
    LET position == FilledPosition(side, size)
    IN  /\ Abs(position.size) <= MaxRmPosition
        /\ rm_position' = position
        /\ risk_request' = NoRequest
        /\ risk_result' = NoResult
        /\ UNCHANGED <<rm_cash, today_realized_pnl, dynamic_limits,
                       portfolio_metrics, tick, volatility, market_stress,
                       risk_stats, not_risk>>

\* Position Ledger MarkPrice(symbol, price)
MarkPrice(price) ==
    /\ rm_position.exists
    /\ rm_position' = [rm_position EXCEPT !.current_price = price]
    /\ risk_request' = NoRequest
    /\ risk_result' = NoResult
    /\ UNCHANGED <<rm_cash, today_realized_pnl, dynamic_limits,
                   portfolio_metrics, tick, volatility, market_stress,
                   risk_stats, not_risk>>

\* RiskManager.check_daily_loss_limit(realized_pnl, unrealized_pnl): stores
\* the day's realized PnL that _calculate_daily_pnl reads
check_daily_loss_limit(realized_pnl) ==
    /\ today_realized_pnl' = realized_pnl
    /\ risk_request' = NoRequest
    /\ risk_result' = NoResult
    /\ UNCHANGED <<rm_cash, rm_position, dynamic_limits, portfolio_metrics,
                   tick, volatility, market_stress, risk_stats, not_risk>>

\* The market data feed delivers a tick: what get_latest_tick,
\* _calculate_volatility and _calculate_market_stress return afterwards
MarketData(scenario) ==
    /\ tick' = scenario.tick
    /\ volatility' = scenario.volatility
    /\ market_stress' = scenario.market_stress
    /\ risk_request' = NoRequest
    /\ risk_result' = NoResult
    /\ UNCHANGED <<rm_cash, rm_position, today_realized_pnl, dynamic_limits,
                   portfolio_metrics, risk_stats, not_risk>>

\* RealtimeRiskManager._adjust_dynamic_limits, run by _dynamic_limits_adjuster
\* every five minutes: the multipliers (in tenths) follow the volatility and
\* the market stress of the moment, and max_position_size and max_daily_loss
\* are rebuilt from the base configuration (0.1 and 0.05)
_adjust_dynamic_limits ==
    /\ LET volatility_multiplier ==
               IF volatility > 500 THEN 7
               ELSE IF volatility < 200 THEN 12 ELSE 10
           market_stress_multiplier ==
               IF market_stress > 7000 THEN 5
               ELSE IF market_stress < 3000 THEN 11 ELSE 10
       IN  dynamic_limits' =
              [dynamic_limits EXCEPT
                  !.max_position_size =
                      (DefaultLimits.max_position_size * volatility_multiplier
                          * market_stress_multiplier) \div 100,
                  !.max_daily_loss =
                      (DefaultLimits.max_daily_loss * volatility_multiplier)
                          \div 10]
    /\ risk_request' = NoRequest
    /\ risk_result' = NoResult
    /\ UNCHANGED <<rm_cash, rm_position, today_realized_pnl,
                   portfolio_metrics, tick, volatility, market_stress,
                   risk_stats, not_risk>>

-----------------------------------------------------------------------------
(***************************************************************************)
(* Risk events of RealtimeRiskManager                                      *)
(*                                                                         *)
(* An event is known by the number it was handled under (its event_id is a *)
(* fresh uuid).  Its timestamp is kept as old: whether it lies more than   *)
(* 24 hours back.                                                          *)
(***************************************************************************)

\* RiskEventType, the types the emergency path tells apart and two others
RiskEventTypes == {"drawdown_limit", "daily_loss_limit", "position_size_limit",
                   "market_stress", "volatility_spike"}

\* RiskLevel
RiskLevels == {"medium", "high", "extreme"}

\* RiskEvent as its creator builds it: resolved is False
RiskEvent(event_id, event_type, severity) ==
    [event_id |-> event_id, event_type |-> event_type, severity |-> severity,
     old |-> FALSE, resolved |-> FALSE]

\* _reduce_risk_exposure: max_position_size *= 0.5, max_leverage *= 0.7
_reduce_risk_exposure(limits) ==
    [limits EXCEPT !.max_position_size = (@ * 5) \div 10,
                   !.max_leverage = (@ * 7) \div 10]

\* _trigger_emergency_action(event): what it leaves in self.dynamic_limits.
\* _pause_all_trading and _force_reduce_positions only write to the log.
_trigger_emergency_action(event_type, limits) ==
    IF event_type \in {"drawdown_limit", "daily_loss_limit"} THEN limits
    ELSE IF event_type = "position_size_limit" THEN limits
    ELSE IF event_type = "market_stress" THEN _reduce_risk_exposure(limits)
    ELSE limits

\* _handle_risk_event taking the emergency action for an event of any
\* severity
HandleEffectsAnySeverity(event_type, severity) ==
    LET event == RiskEvent(events_handled + 1, event_type, severity)
    IN  /\ events_handled < MaxEvents
        /\ events_handled' = events_handled + 1
        /\ risk_events' = Append(risk_events, event)
        /\ active_events' = active_events \cup {event.event_id}
        /\ dynamic_limits' =
              _trigger_emergency_action(event_type, dynamic_limits)
        /\ emergency_actions' = emergency_actions + 1
        /\ risk_request' = NoRequest
        /\ risk_result' = NoResult

\* What _handle_risk_event(event) does to the risk manager: the event goes
\* to the history and to the active map, and an EXTREME one triggers the
\* emergency action
HandleEffects(event_type, severity) ==
    LET event == RiskEvent(events_handled + 1, event_type, severity)
    IN  /\ events_handled < MaxEvents
        /\ events_handled' = events_handled + 1
        /\ risk_events' = Append(risk_events, event)
        /\ active_events' = active_events \cup {event.event_id}
        /\ IF severity = "extreme"
           THEN /\ dynamic_limits' =
                      _trigger_emergency_action(event_type, dynamic_limits)
                /\ emergency_actions' = emergency_actions + 1
           ELSE UNCHANGED <<dynamic_limits, emergency_actions>>
        /\ risk_request' = NoRequest
        /\ risk_result' = NoResult

\* RealtimeRiskManager._handle_risk_event(event)
_handle_risk_event(event_type, severity) ==
    /\ HandleEffects(event_type, severity)
    /\ UNCHANGED <<rm_cash, rm_position, today_realized_pnl,
                   portfolio_metrics, tick, volatility, market_stress,
                   risk_stats, not_events>>

\* Relative distances, in basis points, of a new price from the mean of the
\* last ten
PriceChanges == {700, 1500}

\* _check_price_anomaly(symbol, current_price) as _on_price_update calls it,
\* price_change being |current_price - mean| / mean: above 5% it hands a
\* VOLATILITY_SPIKE event to _handle_risk_event, HIGH above 10%
_check_price_anomaly(price_change) ==
    /\ price_change > 500
    /\ HandleEffects("volatility_spike",
                     IF price_change > 1000 THEN "high" ELSE "medium")
    /\ UNCHANGED <<rm_cash, rm_position, today_realized_pnl,
                   portfolio_metrics, tick, volatility, market_stress,
                   risk_stats, not_events>>

\* One round of _portfolio_risk_monitor: _update_portfolio_metrics, then
\* _check_portfolio_limits, which hands a POSITION_SIZE_LIMIT event of
\* severity HIGH to _handle_risk_event when the leverage is over its limit.
\* (var_1d keeps its 0.0 while fewer than 20 returns are recorded, so the
\* VaR test does not fire.)
_portfolio_risk_monitor ==
    /\ portfolio_metrics' = _update_portfolio_metrics
    /\ IF _update_portfolio_metrics.leverage > dynamic_limits.max_leverage
       THEN HandleEffects("position_size_limit", "high")
       ELSE /\ portfolio_metrics' # portfolio_metrics
            /\ risk_request' = NoRequest
            /\ risk_result' = NoResult
            /\ UNCHANGED <<dynamic_limits, event_vars>>
    /\ UNCHANGED <<rm_cash, rm_position, today_realized_pnl, tick, volatility,
                   market_stress, risk_stats, not_events>>

RECURSIVE SelectEvents(_)
\* [event for event in self.risk_events
\*  if event.timestamp > cutoff_time or not event.resolved]
SelectEvents(events) ==
    IF events = <<>> THEN <<>>
    ELSE LET event == Head(events)
             rest == SelectEvents(Tail(events))
         IN  IF ~event.old \/ ~event.resolved THEN <<event>> \o rest
                                                ELSE rest

\* One round of _risk_event_cleanup: the history keeps the events that are
\* younger than 24 hours or not resolved; the active map drops the events
\* older than 24 hours
_risk_event_cleanup ==
    /\ risk_events' = SelectEvents(risk_events)
    /\ active_events' =
          active_events \ {risk_events[i].event_id :
                              i \in {j \in DOMAIN risk_events :
                                        risk_events[j].old}}
    /\ active_events' # active_events \/ risk_events' # risk_events
    /\ UNCHANGED <<emergency_actions, events_handled, risk_vars, not_events>>

\* 24 hours pass: every event recorded so far is older than the cutoff
DayPasses ==
    /\ \E i \in DOMAIN risk_events : ~risk_events[i].old
    /\ risk_events' = [i \in DOMAIN risk_events |->
                          [risk_events[i] EXCEPT !.old = TRUE]]
    /\ UNCHANGED <<active_events, emergency_actions, events_handled,
                   risk_vars, not_events>>

-----------------------------------------------------------------------------
(***************************************************************************)
(* Execution bridge: StrategyExecutionBridge                               *)
(*                                                                         *)
(* The bridge runs on one event loop: a coroutine gives way only where it  *)
(* awaits a collaborator, so each action below is the code between two     *)
(* such awaits.  Signal strength is in hundredths (100 = 1.0), which is    *)
(* also the unit of sizes.  A request is known by its number, the order    *)
(* built for it by the same number.                                        *)
(***************************************************************************)

BridgeStatus == {"idle", "running", "paused", "error", "stopped"}

\* The worker tasks start() creates, and the caller of force_execute_signal
Workers == 1..max_concurrent_executions

ManualCaller == 0

Tasks == Workers \cup {ManualCaller}

\* Signals of the strategy: signal_type and strength in [-1, 1]
Signals == {[signal_type |-> "buy", strength |-> 100],
            [signal_type |-> "buy", strength |-> 0 - 50],
            [signal_type |-> "sell", strength |-> 100],
            [signal_type |-> "hold", strength |-> 50]}

\* SignalExecutionRequest as _on_signal_generated and force_execute_signal
\* build it; the latest tick of the symbol has price 100
SignalExecutionRequest(signal, manual) ==
    [signal_type |-> signal.signal_type, strength |-> signal.strength,
     current_price |-> 100, manual |-> manual]

\* ExecutionResult: the request, success, and what error_message says
ExecutionResult(request_id, success, error_message) ==
    [request_id |-> request_id, success |-> success,
     error_message |-> error_message]

\* _calculate_order_parameters returning None
NoParams == [side |-> "none"]

\* _calculate_position_size: min(balance * risk_per_trade / price,
\* risk_result.max_position_size), risk_per_trade being 0.02
_calculate_position_size(request, risk) ==
    LET account_balance == get_total_balance
        base_risk_amount == account_balance * 200
        base_position == base_risk_amount \div (request.current_price * 100)
    IN  Min(base_position, risk.max_position_size)

\* _determine_order_type
_determine_order_type(request) ==
    IF request.strength > 80 THEN "market" ELSE "limit"

\* _calculate_order_parameters(request, risk_result)
_calculate_order_parameters(request, risk) ==
    LET base_size == _calculate_position_size(request, risk)
        adjusted_size == (base_size * Min(request.strength, 100)) \div 100
        final_size == Min(adjusted_size, risk.max_position_size)
    IN  IF request.signal_type = "hold" THEN NoParams
        ELSE IF base_size <= 0 THEN NoParams
        ELSE [side |-> request.signal_type, size |-> final_size,
              order_type |-> _determine_order_type(request)]

\* The side _perform_risk_check asks the risk manager about
RiskSide(request) == IF request.signal_type = "buy" THEN "buy" ELSE "sell"

\* f with x mapped to v, x being added to the domain when it is new
Put(f, x, v) == [y \in DOMAIN f \cup {x} |-> IF y = x THEN v ELSE f[y]]

Bump(rec, field) == [rec EXCEPT ![field] = @ + 1]

\* StrategyExecutionBridge.start
start ==
    /\ ~is_running
    /\ handlers < MaxStarts
    /\ handlers' = handlers + 1
    /\ tasks' = [t \in Tasks |-> IF t \in Workers
                                 THEN [pc |-> "idle", req |-> 0]
                                 ELSE tasks[t]]
    /\ monitor_pc' = "due"
    /\ is_running' = TRUE
    /\ bridge_status' = "running"
    /\ UNCHANGED <<requests, signal_queue, blocked_puts, pending_requests,
                   overdue, metrics, execution_history, exchange_orders,
                   delivered, risk_vars, stop_pc,
                   queue_maxsize, notified, not_bridge>>

\* StrategyExecutionBridge.start when the first registration
\* (data_processor.add_tick_callback) raises: the except clause sets the
\* status to ERROR and start returns False; nothing has been registered and
\* no task created
StartRaises ==
    /\ ~is_running
    /\ bridge_status' = "error"
    /\ UNCHANGED <<is_running, handlers, requests, signal_queue, blocked_puts,
                   pending_requests, tasks, monitor_pc, overdue, metrics,
                   execution_history, exchange_orders, delivered, risk_vars,
                   stop_pc, queue_maxsize, notified, not_bridge>>

\* StrategyExecutionBridge.stop: the tasks are cancelled; a worker cancelled
\* inside _process_signal_execution runs its finally clause, which pops its
\* request from pending_requests
stop ==
    /\ is_running
    /\ is_running' = FALSE
    /\ bridge_status' = "stopped"
    /\ tasks' = [t \in Tasks |-> IF t \in Workers
                                 THEN [pc |-> "dead", req |-> 0]
                                 ELSE tasks[t]]
    /\ pending_requests' = pending_requests \ {tasks[t].req : t \in Workers}
    /\ monitor_pc' = "dead"
    /\ overdue' = overdue \cap pending_requests'
    /\ stop_pc' = "waiting"
    /\ UNCHANGED <<handlers, requests, signal_queue, blocked_puts,
                   metrics, execution_history, exchange_orders, delivered,
                   risk_vars, queue_maxsize, notified, not_bridge>>

\* _wait_for_queue_empty as stop() awaits it, and the return of stop(): the
\* wait ends when the queue is empty and nothing is pending, or when its
\* timeout of 10 seconds has passed
StopReturns(timed_out) ==
    /\ stop_pc = "waiting"
    /\ timed_out \/ (signal_queue = <<>> /\ pending_requests = {})
    /\ stop_pc' = "idle"
    /\ UNCHANGED <<bridge_status, is_running, handlers, requests, signal_queue,
                   blocked_puts, pending_requests, tasks, monitor_pc, overdue,
                   metrics, execution_history, exchange_orders, delivered,
                   risk_vars, queue_maxsize, notified, not_bridge>>

\* A pause that sets PAUSED whatever the status
PauseUnguarded ==
    /\ bridge_status' = "paused"
    /\ UNCHANGED <<is_running, handlers, requests, signal_queue, blocked_puts,
                   pending_requests, tasks, monitor_pc, overdue, metrics,
                   execution_history, exchange_orders, delivered, risk_vars,
                   stop_pc,
                   queue_maxsize, notified, not_bridge>>

\* StrategyExecutionBridge.pause
pause ==
    /\ bridge_status = "running"
    /\ bridge_status' = "paused"
    /\ UNCHANGED <<is_running, handlers, requests, signal_queue, blocked_puts,
                   pending_requests, tasks, monitor_pc, overdue, metrics,
                   execution_history, exchange_orders, delivered, risk_vars,
                   stop_pc,
                   queue_maxsize, notified, not_bridge>>

\* StrategyExecutionBridge.resume
resume ==
    /\ bridge_status = "paused"
    /\ bridge_status' = "running"
    /\ UNCHANGED <<is_running, handlers, requests, signal_queue, blocked_puts,
                   pending_requests, tasks, monitor_pc, overdue, metrics,
                   execution_history, exchange_orders, delivered, risk_vars,
                   stop_pc,
                   queue_maxsize, notified, not_bridge>>

\* StrategyExecutionBridge._on_signal_generated, called by the strategy
\* once start() has registered it.  Without a tick it returns.  Otherwise it
\* builds the request and awaits signal_queue.put(request): on a full queue
\* the caller stays suspended in put.
_on_signal_generated(signal) ==
    /\ handlers >= 1
    /\ tick.present
    /\ Len(requests) < MaxSignals
    /\ requests' = Append(requests, SignalExecutionRequest(signal, FALSE))
    /\ IF Len(signal_queue) < queue_maxsize
       THEN /\ signal_queue' = Append(signal_queue, Len(requests) + 1)
            /\ metrics' = Bump(metrics, "total_signals_received")
            /\ UNCHANGED blocked_puts
       ELSE /\ blocked_puts' = blocked_puts \cup {Len(requests) + 1}
            /\ UNCHANGED <<signal_queue, metrics>>
    /\ UNCHANGED <<bridge_status, is_running, handlers, pending_requests,
                   tasks, monitor_pc, overdue, execution_history,
                   exchange_orders, delivered, risk_vars, stop_pc,
                   queue_maxsize, notified, not_bridge>>

\* The rest of _on_signal_generated for a caller that was suspended in put,
\* once the queue has room
PutResumes(r) ==
    /\ r \in blocked_puts
    /\ Len(signal_queue) < queue_maxsize
    /\ blocked_puts' = blocked_puts \ {r}
    /\ signal_queue' = Append(signal_queue, r)
    /\ metrics' = Bump(metrics, "total_signals_received")
    /\ UNCHANGED <<bridge_status, is_running, handlers, requests,
                   pending_requests, tasks, monitor_pc, overdue,
                   execution_history, exchange_orders, delivered, risk_vars,
                   stop_pc,
                   queue_maxsize, notified, not_bridge>>

\* _signal_processing_worker: a request comes off the queue.  When the
\* bridge is not RUNNING it is put back at the end of the queue; otherwise
\* _process_signal_execution adds it to pending_requests and awaits the
\* risk check.
WorkerGet(w) ==
    /\ tasks[w].pc = "idle"
    /\ signal_queue # <<>>
    /\ IF bridge_status # "running"
       THEN /\ signal_queue' = Append(Tail(signal_queue), Head(signal_queue))
            /\ UNCHANGED <<tasks, pending_requests>>
       ELSE /\ signal_queue' = Tail(signal_queue)
            /\ tasks' = [tasks EXCEPT ![w] = [pc |-> "risk",
                                              req |-> Head(signal_queue)]]
            /\ pending_requests' = pending_requests \cup {Head(signal_queue)}
    /\ UNCHANGED <<bridge_status, is_running, handlers, requests,
                   blocked_puts, monitor_pc, overdue, metrics,
                   execution_history, exchange_orders, delivered, risk_vars,
                   stop_pc,
                   queue_maxsize, notified, not_bridge>>

\* _signal_processing_worker taking a request while the bridge is not
\* RUNNING and a caller is suspended in signal_queue.put, on an interpreter
\* whose asyncio.wait_for runs signal_queue.get() in a task of its own
\* (before Python 3.12): the get wakes the suspended caller, whose put fills
\* the freed slot before the worker runs again, so the worker's own
\* signal_queue.put(request) finds the queue full and suspends.  (Where
\* wait_for awaits the get in the worker's task, the put-back follows the
\* get at once: that is WorkerGet.)  A suspended put resumes when a
\* consumer takes a request; the workers are the queue's only consumers, so
\* with every worker suspended this way none resumes.
WorkerGetRefilled(w, r) ==
    /\ tasks[w].pc = "idle"
    /\ signal_queue # <<>>
    /\ bridge_status # "running"
    /\ r \in blocked_puts
    /\ Len(signal_queue) = queue_maxsize
    /\ signal_queue' = Append(Tail(signal_queue), r)
    /\ blocked_puts' = blocked_puts \ {r}
    /\ metrics' = Bump(metrics, "total_signals_received")
    /\ tasks' = [tasks EXCEPT ![w] = [pc |-> "put_back",
                                      req |-> Head(signal_queue)]]
    /\ UNCHANGED <<bridge_status, is_running, handlers, requests,
                   pending_requests, monitor_pc, overdue,
                   execution_history, exchange_orders, delivered, risk_vars,
                   stop_pc, queue_maxsize, notified, not_bridge>>

\* StrategyExecutionBridge.force_execute_signal: without a tick it returns
\* False; otherwise it builds a manual request and runs
\* _process_signal_execution on it itself
force_execute_signal(signal) ==
    /\ tasks[ManualCaller].pc = "idle"
    /\ tick.present
    /\ Len(requests) < MaxSignals
    /\ requests' = Append(requests, SignalExecutionRequest(signal, TRUE))
    /\ tasks' = [tasks EXCEPT ![ManualCaller] = [pc |-> "risk",
                                                 req |-> Len(requests) + 1]]
    /\ pending_requests' = pending_requests \cup {Len(requests) + 1}
    /\ UNCHANGED <<bridge_status, is_running, handlers, signal_queue,
                   blocked_puts, monitor_pc, overdue, metrics,
                   execution_history, exchange_orders, delivered, risk_vars,
                   stop_pc,
                   queue_maxsize, notified, not_bridge>>

\* _trigger_callbacks(callbacks, data) for the requests of rs: callbacks
\* names the list that is triggered and the kind of data it is handed (an
\* ExecutionResult, an Order, or an error)
Notify(triggered, rs, callbacks) ==
    [r \in DOMAIN triggered |->
        IF r \in rs THEN triggered[r] \cup {callbacks} ELSE triggered[r]]

\* _handle_execution_rejection followed by the finally clause of
\* _process_signal_execution, for the task t and its request r
Rejection(t, r, reason) ==
    /\ metrics' = Bump(metrics, "total_signals_rejected")
    /\ execution_history' = Append(execution_history,
                                   ExecutionResult(r, FALSE, reason))
    /\ notified' = Notify(notified, {r}, "execution_callbacks(result)")
    /\ pending_requests' = pending_requests \ {r}
    /\ overdue' = overdue \ {r}
    /\ tasks' = [tasks EXCEPT ![t] = [pc |-> "idle", req |-> 0]]

\* _process_signal_execution from the risk check to the await of
\* execution_engine.place_order: _perform_risk_check,
\* _calculate_order_parameters, _generate_orders, and the call of
\* place_order with the order.  attempts counts the calls of place_order
\* for the order: _execute_orders makes one.
ExecuteRisk(t) ==
    /\ tasks[t].pc = "risk"
    /\ LET r == tasks[t].req
           request == requests[r]
           side == RiskSide(request)
           size == Abs(request.strength)
           risk == TradingRiskResult(side, size, request.current_price)
           params == _calculate_order_parameters(request, risk)
       IN  /\ CheckEffects(side, size, request.current_price)
           /\ IF ~risk.approved
              THEN Rejection(t, r, "risk") /\ UNCHANGED exchange_orders
              ELSE IF params = NoParams
              THEN Rejection(t, r, "params") /\ UNCHANGED exchange_orders
              ELSE /\ exchange_orders' =
                         Put(exchange_orders, r,
                             [side |-> params.side, size |-> params.size,
                              order_type |-> params.order_type,
                              state |-> "submitted", attempts |-> 1])
                   /\ tasks' = [tasks EXCEPT ![t].pc = "place"]
                   /\ UNCHANGED <<metrics, execution_history,
                                  pending_requests, overdue, notified>>
    /\ UNCHANGED <<bridge_status, is_running, handlers, requests,
                   signal_queue, blocked_puts, monitor_pc,
                   delivered, rm_cash, rm_position, today_realized_pnl,
                   dynamic_limits, tick, volatility, market_stress,
                   stop_pc, queue_maxsize, not_bridge>>

\* _execute_orders once place_order has answered, the recording of the
\* result and the finally clause of _process_signal_execution
ExecutePlace(t, success) ==
    /\ tasks[t].pc = "place"
    /\ LET r == tasks[t].req
       IN  /\ exchange_orders' =
                 [exchange_orders EXCEPT ![r].state =
                     IF success THEN "accepted" ELSE "refused"]
           /\ metrics' =
                 IF success
                 THEN Bump(Bump(metrics, "total_orders_placed"),
                           "total_signals_executed")
                 ELSE Bump(metrics, "total_signals_rejected")
           /\ execution_history' =
                 Append(execution_history,
                        ExecutionResult(r, success,
                                        IF success THEN "none"
                                                   ELSE "place_failed"))
           /\ notified' = Notify(notified, {r}, "execution_callbacks(result)")
           /\ pending_requests' = pending_requests \ {r}
           /\ overdue' = overdue \ {r}
    /\ tasks' = [tasks EXCEPT ![t] = [pc |-> "idle", req |-> 0]]
    /\ UNCHANGED <<bridge_status, is_running, handlers, requests,
                   signal_queue, blocked_puts, monitor_pc,
                   delivered, risk_vars, stop_pc, queue_maxsize,
                   not_bridge>>

\* Stages of check_trading_risk that call a collaborator directly, so that
\* an exception of the collaborator leaves the stage: get_total_balance in
\* the basic check, get_position in the position check, get_latest_tick in
\* the market check and get_all_positions in the correlation check.  The
\* portfolio stage's refresh swallows its own exceptions.
RaisingStages == {"basic", "position", "market", "correlation"}

\* An except clause that lets the trade through
ApprovingResult == RiskCheckResult(TRUE, "allow", 0, 0, "exception")

\* The result the except clause of check_trading_risk builds
ExceptionResult == RiskCheckResult(FALSE, "block", 0, 0, "exception")

\* Whether check_trading_risk gets as far as the given stage: every stage
\* before it has returned ALLOW (the basic one, anything but BLOCK)
ReachesStage(stage, side, size, price) ==
    CASE stage = "basic" -> TRUE
      [] stage = "position" ->
            _basic_risk_check(side, size, price).action # "block"
      [] stage = "market" ->
            /\ ReachesPortfolioCheck(side, size, price)
            /\ _portfolio_risk_check(side, size, price).action = "allow"
      [] stage = "correlation" ->
            /\ ReachesPortfolioCheck(side, size, price)
            /\ _portfolio_risk_check(side, size, price).action = "allow"
            /\ _market_condition_check(side, size, price).action = "allow"

\* What a call of check_trading_risk does to the risk manager when the
\* given stage raises: total_risk_checks has been counted, the stages
\* before it have run (the portfolio stage refreshes the metrics), neither
\* blocked_trades nor reduced_trades moves and the except clause builds the
\* result
RaisingEffects(stage, side, size, price) ==
    /\ ReachesStage(stage, side, size, price)
    /\ risk_result' = ExceptionResult
    /\ risk_stats' = Bump(risk_stats, "total_risk_checks")
    /\ risk_request' = [side |-> side, size |-> size, price |-> price]
    /\ portfolio_metrics' = IF stage \in {"market", "correlation"}
                            THEN _update_portfolio_metrics
                            ELSE portfolio_metrics

\* RealtimeRiskManager.check_trading_risk(symbol, side, size, price), called
\* on its own, with a stage that raises
check_trading_risk_raising(stage, side, size, price) ==
    /\ risk_stats.total_risk_checks < MaxRiskChecks
    /\ RaisingEffects(stage, side, size, price)
    /\ UNCHANGED <<rm_cash, rm_position, today_realized_pnl, dynamic_limits,
                   tick, volatility, market_stress, not_risk>>

\* _process_signal_execution from the risk check on, when a stage of
\* check_trading_risk raises: _perform_risk_check gets the result of the
\* except clause and the request goes the way that result sends it
ExecuteRiskRaising(t, stage) ==
    /\ tasks[t].pc = "risk"
    /\ LET r == tasks[t].req
           request == requests[r]
           side == RiskSide(request)
           size == Abs(request.strength)
           risk == ExceptionResult
           params == _calculate_order_parameters(request, risk)
       IN  /\ RaisingEffects(stage, side, size, request.current_price)
           /\ IF ~risk.approved
              THEN Rejection(t, r, "risk") /\ UNCHANGED exchange_orders
              ELSE IF params = NoParams
              THEN Rejection(t, r, "params") /\ UNCHANGED exchange_orders
              ELSE /\ exchange_orders' =
                         Put(exchange_orders, r,
                             [side |-> params.side, size |-> params.size,
                              order_type |-> params.order_type,
                              state |-> "submitted", attempts |-> 1])
                   /\ tasks' = [tasks EXCEPT ![t].pc = "place"]
                   /\ UNCHANGED <<metrics, execution_history,
                                  pending_requests, overdue, notified>>
    /\ UNCHANGED <<bridge_status, is_running, handlers, requests,
                   signal_queue, blocked_puts, monitor_pc,
                   delivered, rm_cash, rm_position, today_realized_pnl,
                   dynamic_limits, tick, volatility, market_stress,
                   stop_pc, queue_maxsize, not_bridge>>

\* StrategyExecutionBridge._on_order_update(order) for an order the
\* exchange reports FILLED: the ledger applies the fill (at the entry price,
\* with no fee) and total_orders_filled goes up.  The exchange may deliver
\* the notification of an order more than once.
_on_order_update(o) ==
    /\ handlers >= 1
    /\ o \in DOMAIN exchange_orders
    /\ exchange_orders[o].state = "accepted"
    /\ delivered[o] < MaxDeliveries
    /\ delivered' = [delivered EXCEPT ![o] = @ + 1]
    /\ rm_position' = FilledPosition(exchange_orders[o].side,
                                      exchange_orders[o].size)
    /\ risk_request' = NoRequest
    /\ risk_result' = NoResult
    /\ metrics' = Bump(metrics, "total_orders_filled")
    /\ notified' = Notify(notified, {o}, "execution_callbacks(order)")
    /\ UNCHANGED <<bridge_status, is_running, handlers, requests,
                   signal_queue, blocked_puts, pending_requests, tasks,
                   monitor_pc, overdue, execution_history, exchange_orders,
                   rm_cash, today_realized_pnl, dynamic_limits,
                   portfolio_metrics, tick, volatility, market_stress,
                   risk_stats, stop_pc, queue_maxsize, not_bridge>>

\* A pending request becomes older than execution_timeout (its age counts
\* from request.timestamp)
TimePasses(r) ==
    /\ r \in pending_requests
    /\ r \notin overdue
    /\ overdue' = overdue \cup {r}
    /\ UNCHANGED <<bridge_status, is_running, handlers, requests,
                   signal_queue, blocked_puts, pending_requests, tasks,
                   monitor_pc, metrics, execution_history, exchange_orders,
                   delivered, risk_vars, stop_pc,
                   queue_maxsize, notified, not_bridge>>

\* _monitoring_task: the sleep of 5 seconds ends
MonitorWake ==
    /\ monitor_pc = "sleeping"
    /\ monitor_pc' = "due"
    /\ UNCHANGED <<bridge_status, is_running, handlers, requests,
                   signal_queue, blocked_puts, pending_requests, tasks,
                   overdue, metrics, execution_history, exchange_orders,
                   delivered, risk_vars, stop_pc,
                   queue_maxsize, notified, not_bridge>>

\* The results _handle_execution_error appends for the requests of rs, in
\* the order of their numbers
RECURSIVE TimeoutResults(_)
TimeoutResults(rs) ==
    IF rs = {} THEN <<>>
    ELSE LET r == CHOOSE x \in rs : \A y \in rs : x <= y
         IN  <<ExecutionResult(r, FALSE, "timeout")>>
                 \o TimeoutResults(rs \ {r})

\* _monitoring_task running _check_execution_timeouts: every pending
\* request that is overdue is popped from pending_requests and handed to
\* _handle_execution_error; the task executing it is not touched
_check_execution_timeouts ==
    /\ monitor_pc = "due"
    /\ monitor_pc' = "sleeping"
    /\ LET timeout_requests == pending_requests \cap overdue
       IN  /\ pending_requests' = pending_requests \ timeout_requests
           /\ metrics' = [metrics EXCEPT !.total_signals_rejected =
                             @ + Cardinality(timeout_requests)]
           /\ execution_history' =
                 execution_history \o TimeoutResults(timeout_requests)
           /\ overdue' = overdue \ timeout_requests
           /\ notified' = Notify(notified, timeout_requests,
                                 "error_callbacks(error)")
    /\ UNCHANGED <<bridge_status, is_running, handlers, requests,
                   signal_queue, blocked_puts, tasks,
                   exchange_orders, delivered, risk_vars, stop_pc,
                   queue_maxsize, not_bridge>>

\* The stop-loss and take-profit levels stored with the ledger's position
\* (entry price 100): 10% away, below and above for a long position, above
\* and below for a short one
StoredLevels(position) ==
    IF position.size > 0 THEN [stop_loss |-> 90, take_profit |-> 110]
                         ELSE [stop_loss |-> 110, take_profit |-> 90]

\* Prices of the ticks delivered to _on_price_update
TickPrices == {80, 100, 120}

\* The order _trigger_stop_loss and _trigger_take_profit build: a market
\* order on the closing side for the whole absolute size
ClosingOrder(type, position, current_price) ==
    [type |-> type,
     side |-> IF position.size > 0 THEN "sell" ELSE "buy",
     order_type |-> "market",
     size |-> Abs(position.size),
     trigger_price |-> current_price]

\* _check_stop_loss_take_profit(symbol, current_price): the orders it hands
\* to execution_engine.place_order, the stop-loss first
_check_stop_loss_take_profit(current_price) ==
    LET position == rm_position
        levels == StoredLevels(position)
        stop_hit == \/ position.size > 0 /\ current_price <= levels.stop_loss
                    \/ position.size < 0 /\ current_price >= levels.stop_loss
        profit_hit ==
            \/ position.size > 0 /\ current_price >= levels.take_profit
            \/ position.size < 0 /\ current_price <= levels.take_profit
    IN  IF ~position.exists \/ position.size = 0 THEN <<>>
        ELSE (IF stop_hit
              THEN <<ClosingOrder("stop_loss", position, current_price)>>
              ELSE <<>>)
             \o (IF profit_hit
                 THEN <<ClosingOrder("take_profit", position, current_price)>>
                 ELSE <<>>)

\* StrategyExecutionBridge._on_price_update(tick_data), called by the data
\* processor once start() has registered it, for a tick that triggers an
\* order: the orders go straight to execution_engine.place_order.  (What
\* risk_manager.update_market_price records of the tick is MarketData.)
_on_price_update(current_price) ==
    /\ handlers >= 1
    /\ _check_stop_loss_take_profit(current_price) # <<>>
    /\ Len(stop_orders) + Len(_check_stop_loss_take_profit(current_price))
          <= MaxStopOrders
    /\ stop_orders' = stop_orders \o _check_stop_loss_take_profit(current_price)
    /\ UNCHANGED <<engine_vars, om_vars, pos_vars, risk_vars, bridge_vars,
                   event_vars, trading_vars, position_size>>

\* Whether the result has an execution_time: _process_signal_execution sets
\* it on what _execute_orders returns, the rejection and error handlers
\* leave it None
HasExecutionTime(result) ==
    result.error_message \in {"none", "place_failed"}

\* _cleanup_task, once when the bridge starts and then hourly: results
\* without an execution_time leave execution_history (those with one are
\* younger than 24 hours)
_cleanup_task ==
    /\ is_running
    /\ execution_history' = SelectSeq(execution_history, HasExecutionTime)
    /\ UNCHANGED <<bridge_status, is_running, handlers, requests,
                   signal_queue, blocked_puts, pending_requests, tasks,
                   monitor_pc, overdue, metrics, exchange_orders, delivered,
                   risk_vars, stop_pc,
                   queue_maxsize, notified, not_bridge>>

-----------------------------------------------------------------------------
(***************************************************************************)
(* RealtimeTradingEngine: the lifecycle of the engine and of its two       *)
(* loops.  A task is none (never created), active (inside its loop), done  *)
(* (its coroutine has returned) or cancelled.  What an iteration of the    *)
(* trading loop does to orders and positions is the ExecutionEngine's part.*)
(***************************************************************************)

\* TradingStatus
TradingStatus == {"stopped", "starting", "running", "paused", "stopping",
                  "error"}

\* RealtimeTradingEngine.start_trading; initialized says whether
\* _initialize_websocket and _initialize_account return or raise.  It
\* passes through STARTING; both tasks are created anew; neither event is
\* touched.
start_trading(initialized) ==
    /\ trading_status = "stopped"
    /\ IF initialized
       THEN /\ trading_task' = "active"
            /\ data_task' = "active"
            /\ trading_status' = "running"
       ELSE /\ trading_status' = "error"
            /\ UNCHANGED <<trading_task, data_task>>
    /\ UNCHANGED <<stop_event, pause_event, loop_iterations, not_trading>>

\* task.cancel(): a task that is still in its loop is cancelled
Cancel(task) == IF task = "active" THEN "cancelled" ELSE task

\* RealtimeTradingEngine.stop_trading; closed says whether ws_client.close()
\* returns or raises (there is a client once a start has succeeded).  It
\* passes through STOPPING and sets the stop event.
stop_trading(closed) ==
    /\ trading_status # "stopped"
    /\ closed \/ trading_task # "none"
    /\ stop_event' = TRUE
    /\ trading_task' = Cancel(trading_task)
    /\ data_task' = Cancel(data_task)
    /\ trading_status' = IF closed THEN "stopped" ELSE "error"
    /\ UNCHANGED <<pause_event, loop_iterations, not_trading>>

\* RealtimeTradingEngine.pause_trading
pause_trading ==
    /\ trading_status = "running"
    /\ pause_event' = TRUE
    /\ trading_status' = "paused"
    /\ UNCHANGED <<stop_event, trading_task, data_task, loop_iterations,
                   not_trading>>

\* RealtimeTradingEngine.resume_trading
resume_trading ==
    /\ trading_status = "paused"
    /\ pause_event' = FALSE
    /\ trading_status' = "running"
    /\ UNCHANGED <<stop_event, trading_task, data_task, loop_iterations,
                   not_trading>>

\* _trading_loop at the head of its while loop: with the stop event set the
\* coroutine returns; with the pause event set it sleeps and tries again;
\* otherwise it makes an iteration
_trading_loop ==
    /\ trading_task = "active"
    /\ IF stop_event
       THEN /\ trading_task' = "done"
            /\ UNCHANGED loop_iterations
       ELSE /\ ~pause_event
            /\ loop_iterations < MaxIterations
            /\ loop_iterations' = loop_iterations + 1
            /\ UNCHANGED trading_task
    /\ UNCHANGED <<trading_status, stop_event, pause_event, data_task,
                   not_trading>>

\* _data_stream_loop at the head of its while loop with the stop event set:
\* the coroutine returns (otherwise it refreshes the candles and sleeps)
_data_stream_loop ==
    /\ data_task = "active"
    /\ stop_event
    /\ data_task' = "done"
    /\ UNCHANGED <<trading_status, stop_event, pause_event, trading_task,
                   loop_iterations, not_trading>>

\* _data_stream_loop when _update_timeframe_data raises: the except clause
\* sets ERROR and the coroutine returns
DataStreamRaises ==
    /\ data_task = "active"
    /\ ~stop_event
    /\ data_task' = "done"
    /\ trading_status' = "error"
    /\ UNCHANGED <<stop_event, pause_event, trading_task, loop_iterations,
                   not_trading>>

-----------------------------------------------------------------------------
(***************************************************************************)
(* ExecutionEngine (src/src/execution/execution_engine.py): market buys    *)
(* and sells over the OrderManager's book, and the engine's own            *)
(* position_size.  Quantities are whole units, prices millionths of the    *)
(* quote currency, rates basis points.                                     *)
(***************************************************************************)

\* Orders the book holds at most
MaxBookOrders == 5

\* Prices the engine's operations are called with
ExecPrices == {1900000, 2000000, 2100000}

\* stop_loss arguments of execute_buy; 0 stands for None
StopLossLevels == {0, 1950000}

\* take_profit arguments of execute_buy; 0 stands for None
TakeProfitLevels == {0, 2050000}

\* ExecutionEngine.__init__: commission_rate 0.001 and slippage 0.0005
commission_rate == 10

slippage == 5

\* The OrderManager's book as one value
Book == [orders |-> om_orders, order_counter |-> om_order_counter,
         open_orders |-> open_orders, filled_orders |-> filled_orders]

\* An Order as the create_* methods of the OrderManager construct it; a stop
\* order carries its stop_price and a take-profit order its
\* take_profit_price in the price field
OmOrder(order_type, side, quantity, price) ==
    [order_type |-> order_type, side |-> side, quantity |-> quantity,
     price |-> price, status |-> "pending", filled_quantity |-> 0,
     avg_fill_price |-> 0, commission |-> 0, slippage |-> 0]

\* The book after a create_* method: generate_order_id, orders[order_id] =
\* order, open_orders.append(order)
Created(book, order) ==
    [book EXCEPT !.order_counter = @ + 1,
                 !.orders = Append(@, order),
                 !.open_orders = Append(@, book.order_counter + 1)]

\* The book after execute_market_order(order n, current_price, rate, slip)
Filled(book, n, current_price, rate, slip) ==
    LET order == book.orders[n]
        fill_price == FillPrice(order.side, current_price, slip)
    IN  [book EXCEPT
            !.orders[n].status = "filled",
            !.orders[n].filled_quantity = order.quantity,
            !.orders[n].avg_fill_price = fill_price,
            !.orders[n].commission =
                (order.quantity * fill_price * rate) \div 10000,
            !.orders[n].slippage = (current_price * slip) \div 10000,
            !.open_orders = RemoveFirst(@, n),
            !.filled_orders = Append(@, n)]

\* Whether check_stop_orders triggers order at current_price
StopTriggered(order, current_price) ==
    \/ /\ order.order_type = "stop"
       /\ \/ order.side = "buy" /\ current_price >= order.price
          \/ order.side = "sell" /\ current_price <= order.price
    \/ /\ order.order_type = "take_profit"
       /\ \/ order.side = "buy" /\ current_price <= order.price
          \/ order.side = "sell" /\ current_price >= order.price

\* The open orders check_stop_orders fills at current_price
TriggeredOrders(book, current_price) ==
    {n \in DOMAIN book.orders :
        /\ InList(book.open_orders, n)
        /\ StopTriggered(book.orders[n], current_price)}

\* The book after check_stop_orders(current_price): every triggered order is
\* filled whole at current_price and moved to filled_orders
check_stop_orders(book, current_price) ==
    LET hit == TriggeredOrders(book, current_price)
    IN  [book EXCEPT
            !.orders = [n \in DOMAIN book.orders |->
                          IF n \in hit
                          THEN [book.orders[n] EXCEPT
                                   !.status = "filled",
                                   !.filled_quantity = book.orders[n].quantity,
                                   !.avg_fill_price = current_price]
                          ELSE book.orders[n]],
            !.open_orders = FilterList(@, DOMAIN book.orders \ hit),
            !.filled_orders = @ \o FilterList(book.open_orders, hit)]

\* The book after close_all_positions has cancelled every open stop and
\* take-profit order
StopsCancelled(book) ==
    LET stops == {n \in DOMAIN book.orders :
                     /\ InList(book.open_orders, n)
                     /\ book.orders[n].order_type \in {"stop", "take_profit"}
                     /\ book.orders[n].status \in {"pending", "open"}}
    IN  [book EXCEPT
            !.orders = [n \in DOMAIN book.orders |->
                          IF n \in stops
                          THEN [book.orders[n] EXCEPT !.status = "cancelled"]
                          ELSE book.orders[n]],
            !.open_orders = FilterList(@, DOMAIN book.orders \ stops)]

\* The book becomes book
SetBook(book) ==
    /\ om_orders' = book.orders
    /\ om_order_counter' = book.order_counter
    /\ open_orders' = book.open_orders
    /\ filled_orders' = book.filled_orders

\* The book after the market order of execute_buy or execute_sell
MarketFill(book, side, quantity, current_price) ==
    Filled(Created(book, OmOrder("market", side, quantity, 0)),
           book.order_counter + 1, current_price, commission_rate, slippage)

\* ExecutionEngine.execute_buy(symbol, quantity, current_price, stop_loss,
\* take_profit)
execute_buy(quantity, current_price, stop_loss, take_profit) ==
    LET bought == MarketFill(Book, "buy", quantity, current_price)
        stopped == IF stop_loss # 0
                   THEN Created(bought,
                                OmOrder("stop", "sell", quantity, stop_loss))
                   ELSE bought
        booked == IF take_profit # 0
                  THEN Created(stopped, OmOrder("take_profit", "sell",
                                                 quantity, take_profit))
                  ELSE stopped
    IN  /\ om_order_counter + 3 <= MaxBookOrders
        /\ SetBook(booked)
        /\ position_size' = position_size + quantity
        /\ UNCHANGED not_execution

\* ExecutionEngine.execute_sell(symbol, quantity, current_price): the
\* quantity is cut to the position, and nothing is sold when that is zero
execute_sell(quantity, current_price) ==
    LET sold == IF position_size < quantity THEN position_size ELSE quantity
        size == position_size - sold
    IN  /\ sold > 0
        /\ om_order_counter < MaxBookOrders
        /\ SetBook(MarketFill(Book, "sell", sold, current_price))
        /\ position_size' = IF size <= 0 THEN 0 ELSE size
        /\ UNCHANGED not_execution

\* ExecutionEngine.check_stop_loss_take_profit(current_price, symbol): it
\* returns what check_stop_orders filled
check_stop_loss_take_profit(current_price) ==
    /\ TriggeredOrders(Book, current_price) # {}
    /\ SetBook(check_stop_orders(Book, current_price))
    /\ UNCHANGED <<position_size, not_execution>>

\* ExecutionEngine.close_all_positions(current_price, symbol)
close_all_positions(current_price) ==
    /\ position_size > 0
    /\ om_order_counter < MaxBookOrders
    /\ SetBook(MarketFill(StopsCancelled(Book), "sell", position_size,
                          current_price))
    /\ position_size' = 0
    /\ UNCHANGED not_execution

-----------------------------------------------------------------------------
(***************************************************************************)
(* Initial state and specifications                                        *)
(***************************************************************************)

InitOrders ==
    /\ orders = <<>>
    /\ order_counter = 0
    /\ last_return = "none"
    /\ om_orders = <<>>
    /\ om_order_counter = 0
    /\ open_orders = <<>>
    /\ filled_orders = <<>>

InitPositions ==
    /\ positions = <<>>
    /\ position_counter = 0

\* RealtimeRiskManager.__init__, with a ledger that holds cash and no
\* position and a feed that has delivered nothing yet
InitRisk ==
    /\ rm_cash \in RmCashValues
    /\ rm_position = NoPosition
    /\ today_realized_pnl = 0
    /\ dynamic_limits = DefaultLimits
    /\ portfolio_metrics = [leverage |-> 0, concentration_risk |-> 0,
                            liquidity_risk |-> 0]
    /\ tick = NoTick
    /\ volatility = 0
    /\ market_stress = 0
    /\ risk_stats = [total_risk_checks |-> 0, blocked_trades |-> 0,
                     reduced_trades |-> 0]
    /\ risk_request = NoRequest
    /\ risk_result = NoResult

\* StrategyExecutionBridge.__init__: IDLE, no task created yet
InitBridgeWith(maxsize) ==
    /\ queue_maxsize = maxsize
    /\ notified = [r \in 1..MaxSignals |-> {}]
    /\ bridge_status = "idle"
    /\ is_running = FALSE
    /\ handlers = 0
    /\ requests = <<>>
    /\ signal_queue = <<>>
    /\ blocked_puts = {}
    /\ pending_requests = {}
    /\ tasks = [t \in Tasks |-> IF t \in Workers
                                 THEN [pc |-> "dead", req |-> 0]
                                 ELSE [pc |-> "idle", req |-> 0]]
    /\ monitor_pc = "dead"
    /\ overdue = {}
    /\ metrics = [total_signals_received |-> 0, total_signals_executed |-> 0,
                  total_signals_rejected |-> 0, total_orders_placed |-> 0,
                  total_orders_filled |-> 0]
    /\ execution_history = <<>>
    /\ exchange_orders = <<>>
    /\ delivered = [r \in 1..MaxSignals |-> 0]
    /\ stop_pc = "idle"

\* StrategyExecutionBridge.__init__ with the queue bounded by QueueMaxSize
InitBridge == InitBridgeWith(QueueMaxSize)

\* RealtimeRiskManager.__init__: no event yet
InitEvents ==
    /\ risk_events = <<>>
    /\ active_events = {}
    /\ emergency_actions = 0
    /\ events_handled = 0

\* RealtimeTradingEngine.__init__: STOPPED, both events clear, no task
InitTrading ==
    /\ trading_status = "stopped"
    /\ stop_event = FALSE
    /\ pause_event = FALSE
    /\ trading_task = "none"
    /\ data_task = "none"
    /\ loop_iterations = 0

\* ExecutionEngine.__init__
InitExecution == position_size = 0

Init ==
    /\ InitOrders /\ InitPositions /\ InitRisk /\ InitBridge /\ InitEvents
    /\ stop_orders = <<>>
    /\ InitTrading /\ InitExecution

\* The initial state with a ledger holding 10000 in cash
InitFunded == Init /\ rm_cash = 10000

\* The initial state with a ledger holding 500 in cash
InitThin == Init /\ rm_cash = 500

NextOrders ==
    \/ \E q \in Quantities : create_order(q)
    \/ \E n \in 0..MaxEngineOrders, kw \in UpdateKwargs : update_order(n, kw)
    \/ \E n \in 0..MaxEngineOrders : cancel_order(n)

\* The order state engine of the bridge pipeline: OrderExecutionEngine
SpecOrders == Init /\ [][NextOrders]_vars

NextOrderManager ==
    \/ \E s \in OrderSide, q \in Quantities : create_market_order(s, q)
    \/ \E s \in OrderSide, q \in Quantities, p \in OmPrices :
          create_limit_order(s, q, p)
    \/ \E n \in 1..MaxOrders, p \in MarketPrices, c \in CommissionRates,
          sl \in SlippageRates : execute_market_order(n, p, c, sl)
    \/ \E p \in OmPrices : check_limit_orders(p)
    \/ \E n \in 1..MaxOrders : OrderManager_cancel_order(n)

\* The order state engine of the backtest and grid path: OrderManager
SpecOrderManager == Init /\ [][NextOrderManager]_vars

NextMarketOrders ==
    \/ \E s \in OrderSide, q \in Quantities : create_market_order(s, q)
    \/ \E n \in 1..MaxOrders, p \in MarketPrices, c \in CommissionRates,
          sl \in SlippageRates : execute_market_order(n, p, c, sl)
    \/ \E n \in 1..MaxOrders : OrderManager_cancel_order(n)

\* The market orders of OrderManager, as the grid strategy uses it
SpecMarketOrders == InitFunded /\ [][NextMarketOrders]_vars

NextPositions ==
    \/ \E sd \in PositionSide, sz \in Sizes, e \in Prices, c \in 0..MaxPrice :
          create_position(sd, sz, e, c)
    \/ \E n \in 1..MaxPositions, p \in Prices : update_position_price(n, p)
    \/ \E n \in 1..MaxPositions, p \in Prices, c \in 0..(MaxSize + 1) :
          PositionManager_close_position(n, p, c)

\* The position ledger: PositionManager
SpecPositions == Init /\ [][NextPositions]_vars

NextRisk ==
    \/ \E sd \in OrderSide, sz \in RiskSizes, p \in RiskPrices :
          check_trading_risk(sd, sz, p)
    \/ \E sd \in OrderSide, sz \in FillSizes : ApplyFill(sd, sz)
    \/ \E p \in MarkPrices : MarkPrice(p)
    \/ \E r \in RealizedValues : check_daily_loss_limit(r)
    \/ \E m \in MarketScenarios : MarketData(m)
    \/ _adjust_dynamic_limits

\* Trade admission: RealtimeRiskManager over the ledger and the feed
SpecRisk == Init /\ [][NextRisk]_vars

\* Market states of the feed while the risk events are followed
EventScenarios ==
    {[tick |-> [present |-> TRUE, quoted |-> TRUE, spread |-> 5],
      volatility |-> 0, market_stress |-> 0],
     [tick |-> [present |-> TRUE, quoted |-> TRUE, spread |-> 5],
      volatility |-> 2000, market_stress |-> 7000]}

\* Events handed to _handle_risk_event from outside the monitoring loops
GivenEvents == {<<"drawdown_limit", "extreme">>,
                <<"position_size_limit", "extreme">>,
                <<"market_stress", "extreme">>,
                <<"market_stress", "high">>}

NextEvents ==
    \/ \E sd \in OrderSide, sz \in RiskSizes, p \in RiskPrices :
          check_trading_risk(sd, sz, p)
    \/ \E sz \in FillSizes : ApplyFill("buy", sz)
    \/ \E m \in EventScenarios : MarketData(m)
    \/ _adjust_dynamic_limits
    \/ \E e \in GivenEvents : _handle_risk_event(e[1], e[2])
    \/ \E c \in PriceChanges : _check_price_anomaly(c)
    \/ _portfolio_risk_monitor
    \/ _risk_event_cleanup
    \/ DayPasses

\* The risk manager with its monitoring loops and its risk events
SpecEvents == InitThin /\ [][NextEvents]_vars

\* What execution_engine.place_order may answer
PlaceOrderReplies == BOOLEAN

\* The feed as the bridge's runs see it: a quoted tick in a calm market
CalmMarket ==
    [tick |-> [present |-> TRUE, quoted |-> TRUE, spread |-> 5],
     volatility |-> 0, market_stress |-> 0]

NextBridge ==
    \/ start
    \/ stop
    \/ \E timed_out \in BOOLEAN : StopReturns(timed_out)
    \/ pause
    \/ resume
    \/ MarketData(CalmMarket)
    \/ \E s \in Signals : _on_signal_generated(s)
    \/ \E r \in 1..MaxSignals : PutResumes(r)
    \/ \E w \in Workers : WorkerGet(w)
    \/ \E s \in Signals : force_execute_signal(s)
    \/ \E t \in Tasks : ExecuteRisk(t)
    \/ \E t \in Tasks, success \in PlaceOrderReplies :
          ExecutePlace(t, success)
    \/ \E o \in 1..MaxSignals : _on_order_update(o)
    \/ \E r \in 1..MaxSignals : TimePasses(r)
    \/ MonitorWake
    \/ _check_execution_timeouts
    \/ _cleanup_task

\* The execution bridge with a funded ledger, the risk manager, the signal
\* source and the exchange
SpecBridge == InitFunded /\ [][NextBridge]_vars

\* The initial state with a funded ledger and a queue that never fills
InitWideQueue ==
    /\ InitOrders /\ InitPositions /\ InitRisk /\ InitEvents
    /\ InitBridgeWith(WideQueueMaxSize)
    /\ stop_orders = <<>>
    /\ InitTrading /\ InitExecution
    /\ rm_cash = 10000

\* The worker loop with its queue, under submissions, pause and resume; no
\* caller is ever suspended in put, the queue holding every request
NextFifo ==
    \/ start
    \/ pause
    \/ resume
    \/ MarketData(CalmMarket)
    \/ \E s \in Signals : _on_signal_generated(s)
    \/ \E w \in Workers : WorkerGet(w)
    \/ \E t \in Tasks : ExecuteRisk(t)
    \/ \E t \in Tasks, success \in PlaceOrderReplies :
          ExecutePlace(t, success)

\* The signal queue and its worker
SpecFifo == InitWideQueue /\ [][NextFifo]_vars

\* The path of a signal from the strategy to the exchange and back
NextPipeline ==
    \/ start
    \/ MarketData(CalmMarket)
    \/ \E s \in Signals : _on_signal_generated(s)
    \/ \E r \in 1..MaxSignals : PutResumes(r)
    \/ \E w \in Workers : WorkerGet(w)
    \/ \E t \in Tasks : ExecuteRisk(t)
    \/ \E t \in Tasks, success \in PlaceOrderReplies :
          ExecutePlace(t, success)
    \/ \E o \in 1..MaxSignals : _on_order_update(o)

\* The signal path with the price updates that trigger stop-loss and
\* take-profit orders
NextStops ==
    \/ NextPipeline
    \/ \E p \in TickPrices : _on_price_update(p)

\* The bridge with its reactive stop-loss and take-profit, funded ledger
SpecStops == InitFunded /\ [][NextStops]_vars

\* The signal path and the admission check with collaborators that raise
NextFaults ==
    \/ NextPipeline
    \/ \E stage \in RaisingStages, side \in {"buy", "sell"},
          size \in RiskSizes, price \in RiskPrices :
          check_trading_risk_raising(stage, side, size, price)
    \/ \E t \in Tasks, stage \in RaisingStages : ExecuteRiskRaising(t, stage)

\* The bridge over a funded ledger whose collaborators may raise
SpecFaults == InitFunded /\ [][NextFaults]_vars

\* The feed at a moment of stress: high volatility and market stress
StressedMarket ==
    [tick |-> [present |-> TRUE, quoted |-> TRUE, spread |-> 5],
     volatility |-> 2000, market_stress |-> 9000]

\* The signal path with the manual caller next to the worker, and with
\* limits that _dynamic_limits_adjuster tightens when the market is stressed
NextRace ==
    \/ NextPipeline
    \/ \E s \in Signals : force_execute_signal(s)
    \/ MarketData(StressedMarket)
    \/ _adjust_dynamic_limits

\* Concurrent requests over a thinly funded ledger
SpecRace == InitThin /\ [][NextRace]_vars

\* The bridge started once, paused and resumed while signals arrive
NextPause ==
    \/ start
    \/ pause
    \/ resume
    \/ MarketData(CalmMarket)
    \/ \E s \in Signals : _on_signal_generated(s)
    \/ \E r \in 1..MaxSignals : PutResumes(r)
    \/ \E w \in Workers : WorkerGet(w)
    \/ \E w \in Workers, r \in 1..MaxSignals : WorkerGetRefilled(w, r)
    \/ \E t \in Tasks : ExecuteRisk(t)
    \/ \E t \in Tasks, success \in PlaceOrderReplies :
          ExecutePlace(t, success)

\* What the event loop and the exchange owe: a worker that can take a
\* request or run its risk check does so, a caller suspended in put resumes
\* when there is room, and place_order answers
FairPause ==
    /\ \A w \in Workers : WF_vars(WorkerGet(w))
    /\ \A t \in Tasks :
          /\ WF_vars(ExecuteRisk(t))
          /\ WF_vars(\E success \in PlaceOrderReplies :
                        ExecutePlace(t, success))
    /\ \A r \in 1..MaxSignals : WF_vars(PutResumes(r))

SpecPause == InitFunded /\ [][NextPause]_vars

\* Pause and resume under fair scheduling
SpecPauseFair == SpecPause /\ FairPause

\* The lifecycle of the bridge (start, a start that fails, stop, pause,
\* resume) while signals are processed
NextLifecycle ==
    \/ start
    \/ StartRaises
    \/ stop
    \/ \E timed_out \in BOOLEAN : StopReturns(timed_out)
    \/ pause
    \/ resume
    \/ MarketData(CalmMarket)
    \/ \E s \in Signals : _on_signal_generated(s)
    \/ \E r \in 1..MaxSignals : PutResumes(r)
    \/ \E w \in Workers : WorkerGet(w)
    \/ \E t \in Tasks : ExecuteRisk(t)
    \/ \E t \in Tasks, success \in PlaceOrderReplies :
          ExecutePlace(t, success)

SpecLifecycle == InitFunded /\ [][NextLifecycle]_vars

\* The trading engine: its controls and its two loops
NextTrading ==
    \/ \E initialized \in BOOLEAN : start_trading(initialized)
    \/ \E closed \in BOOLEAN : stop_trading(closed)
    \/ pause_trading
    \/ resume_trading
    \/ _trading_loop
    \/ _data_stream_loop
    \/ DataStreamRaises

SpecTrading == InitFunded /\ [][NextTrading]_vars

\* The execution engine over the order manager's book
NextExecution ==
    \/ \E quantity \in 1..MaxQty, current_price \in ExecPrices,
          stop_loss \in StopLossLevels, take_profit \in TakeProfitLevels :
          execute_buy(quantity, current_price, stop_loss, take_profit)
    \/ \E quantity \in 1..MaxQty, current_price \in ExecPrices :
          execute_sell(quantity, current_price)
    \/ \E current_price \in ExecPrices :
          check_stop_loss_take_profit(current_price)
    \/ \E current_price \in ExecPrices : close_all_positions(current_price)

SpecExecution == InitFunded /\ [][NextExecution]_vars

\* The signal path of the bridge over a thinly funded ledger, where the
\* position limit binds
SpecPipeline == InitThin /\ [][NextPipeline]_vars

-----------------------------------------------------------------------------
(***************************************************************************)
(* Claims about the order state engine                                     *)
(***************************************************************************)

\* C1: every order the order state engine holds has
\* 0 <= filled_quantity <= quantity, in every reachable state.
C1_FilledWithinQuantity ==
    /\ \A n \in DOMAIN orders :
          0 <= orders[n].filled_quantity
          /\ orders[n].filled_quantity <= orders[n].quantity
    /\ \A n \in DOMAIN om_orders :
          0 <= om_orders[n].filled_quantity
          /\ om_orders[n].filled_quantity <= om_orders[n].quantity

\* The place of a status in the lifecycle Pending -> Submitted ->
\* PartiallyFilled -> Filled
LifecycleRank(status) ==
    CASE status = "pending" -> 0
      [] status = "submitted" -> 1
      [] status = "partially_filled" -> 2
      [] status = "filled" -> 3
      [] OTHER -> 4

TerminalStatus == {"filled", "cancelled", "rejected", "expired"}

\* C2: no step moves an order's status backwards in the lifecycle, and no
\* step changes the status of an order that is Filled, Cancelled, Rejected
\* or Expired.
C2_StatusMonotonic ==
    [][\A n \in DOMAIN orders :
          /\ LifecycleRank(orders'[n].status) >= LifecycleRank(orders[n].status)
          /\ orders[n].status \in TerminalStatus
                => orders'[n].status = orders[n].status]_vars

-----------------------------------------------------------------------------
(***************************************************************************)
(* Claims about the position ledger                                        *)
(***************************************************************************)

\* C3: the stored unrealized_pnl of every position equals the value
\* recomputed from its current size, entry price and mark price:
\* (current_price - entry_price) * size for a long position and
\* (entry_price - current_price) * size for a short one.
C3_UnrealizedPnlNoDrift ==
    \A n \in DOMAIN positions :
       positions[n].unrealized_pnl =
          IF positions[n].side = "long"
          THEN (positions[n].current_price - positions[n].entry_price)
                   * positions[n].size
          ELSE (positions[n].entry_price - positions[n].current_price)
                   * positions[n].size

-----------------------------------------------------------------------------
(***************************************************************************)
(* Claims about trade admission                                            *)
(***************************************************************************)

\* The day's realized plus unrealized PnL is below
\* -(max_daily_loss * balance)
DailyLossBreached ==
    /\ get_total_balance > 0
    /\ _calculate_daily_pnl * 100
          < 0 - (get_total_balance * dynamic_limits.max_daily_loss)

\* C9: once the day's realized plus unrealized PnL has gone below
\* -(max_daily_loss * balance), the check_trading_risk call made in that
\* state returns action block, whatever the requested size, including a
\* size whose notional also exceeds the single-trade limit.
C9_DailyLossBlocks ==
    (risk_result # NoResult /\ DailyLossBreached)
        => risk_result.action = "block"

\* The state and request of Scenario A: balance 10000, max_position_size
\* 0.1, no position in the symbol, a request of size 20 at price 100
ScenarioA ==
    /\ risk_result # NoResult
    /\ get_total_balance = 10000
    /\ dynamic_limits.max_position_size = 1000
    /\ current_size = 0
    /\ risk_request.size = 2000
    /\ risk_request.price = 100

\* C10: in Scenario A, with the daily-loss and drawdown limits not
\* breached, check_trading_risk returns a result that is not approved, with
\* action reduce and suggested_size 10.
C10_ScenarioAReduce ==
    (ScenarioA /\ ~DailyLossBreached)
        => /\ risk_result.approved = FALSE
           /\ risk_result.action = "reduce"
           /\ risk_result.suggested_size = 1000

\* Limits b are strictly more permissive than limits a: no limit is lower
\* and at least one is higher
MorePermissive(a, b) ==
    /\ b.max_position_size >= a.max_position_size
    /\ b.max_daily_loss >= a.max_daily_loss
    /\ b.max_drawdown >= a.max_drawdown
    /\ b.max_leverage >= a.max_leverage
    /\ b.max_correlation >= a.max_correlation
    /\ b # a

StageResults ==
    <<_basic_risk_check(risk_request.side, risk_request.size,
                        risk_request.price),
      _dynamic_position_check(risk_request.side, risk_request.size,
                              risk_request.price),
      _portfolio_risk_check(risk_request.side, risk_request.size,
                            risk_request.price),
      _market_condition_check(risk_request.side, risk_request.size,
                              risk_request.price),
      _correlation_risk_check(risk_request.side, risk_request.size)>>

BlockingStages == {i \in 1..5 : StageResults[i].action = "block"}

\* C12: check_trading_risk evaluates the stages in the order basic, dynamic
\* position size, portfolio, market condition, correlation: a block it
\* returns is the result of the first stage whose action is block, and it
\* returns allow only if every one of the five stages returned allow.
C12_StagedShortCircuit ==
    risk_result # NoResult =>
        /\ risk_result.action = "block" =>
               risk_result =
                  StageResults[CHOOSE i \in BlockingStages :
                                  \A j \in BlockingStages : i <= j]
        /\ risk_result.action = "allow" =>
               \A i \in 1..5 : StageResults[i].action = "allow"

-----------------------------------------------------------------------------
(***************************************************************************)
(* Claims about the execution bridge                                       *)
(***************************************************************************)

\* C4: delivering the fill notification of an order again leaves the
\* position size, the realized PnL and the filled-order counter as they
\* were after the first delivery.
C4_DuplicateFillIdempotent ==
    [][\A o \in DOMAIN delivered :
          (delivered[o] >= 1 /\ delivered'[o] > delivered[o])
              => /\ rm_position' = rm_position
                 /\ rm_cash' = rm_cash
                 /\ metrics'.total_orders_filled
                        = metrics.total_orders_filled]_vars

\* C5: no order with size <= 0 is ever passed to
\* execution_engine.place_order: every order the bridge has handed to the
\* exchange has a positive size.
C5_NoNonPositiveOrder ==
    \A o \in DOMAIN exchange_orders : exchange_orders[o].size > 0

\* C6: in every reachable state the number of entries of pending_requests
\* is at most max_concurrent_executions.
C6_ConcurrencyBudget ==
    Cardinality(pending_requests) <= max_concurrent_executions

\* C7: with the signal queue at capacity, submitting a signal returns to the
\* caller without blocking and enqueues nothing: no caller is ever left
\* suspended in the queue's put, to be enqueued later.
C7_QueueFullFailsFast ==
    blocked_puts = {}

\* The requests execution_history records as failed by the watchdog
TimedOut ==
    {execution_history[i].request_id :
        i \in {j \in DOMAIN execution_history :
                  execution_history[j].error_message = "timeout"}}

\* C8: when a watchdog scan ends, no worker is still executing a request
\* that the watchdog has failed as timed out (the worker has stopped working
\* on it and is available for new work).
C8_TimeoutFreesWorker ==
    [][(monitor_pc = "due" /\ monitor_pc' = "sleeping")
          => \A w \in Workers :
                ~(tasks'[w].pc \in {"risk", "place"}
                  /\ tasks'[w].req \in TimedOut')]_vars

\* C13: whenever the risk check result for a request has action reduce, the
\* order the bridge submits for that request has a size of at most the
\* result's suggested_size.
C13_ReduceRespected ==
    [][\A r \in 1..MaxSignals :
          (/\ r \notin DOMAIN exchange_orders
           /\ r \in DOMAIN exchange_orders'
           /\ risk_result'.action = "reduce")
              => exchange_orders'[r].size <= risk_result'.suggested_size]_vars

-----------------------------------------------------------------------------
(***************************************************************************)
(* Further claims about the order state engine                             *)
(***************************************************************************)

\* The statuses from which the specification lets an order be cancelled
Cancellable == {"pending", "submitted", "partially_filled"}

\* C14: cancel_order(order_id) moves the order to Cancelled and reports
\* success when the order is Pending, Submitted or PartiallyFilled, and only
\* then; from every other status it reports failure and leaves the order
\* unchanged.
C14_CancelOnlyWhenActive ==
    [][\A n \in 1..MaxEngineOrders :
          (n \in DOMAIN orders /\ cancel_order(n))
              => IF orders[n].status \in Cancellable
                 THEN /\ last_return' = "true"
                      /\ orders'[n] = [orders[n] EXCEPT !.status = "cancelled"]
                 ELSE /\ last_return' = "false"
                      /\ orders'[n] = orders[n]]_vars

\* A partially filled order has been cancelled with success
C14_Witness ==
    \E n \in DOMAIN orders :
        /\ orders[n].status = "cancelled"
        /\ orders[n].filled_quantity > 0
        /\ orders[n].filled_quantity < orders[n].quantity
        /\ last_return = "true"

\* A status change the lifecycle does not allow: out of a terminal status,
\* or backwards
InvalidTransition(from, to) ==
    /\ to # from
    /\ \/ from \in TerminalStatus
       \/ LifecycleRank(to) < LifecycleRank(from)

\* C15: an operation that requests an invalid status transition on an
\* existing order returns an error and leaves every field of the order
\* unchanged, and an update or a cancel that names an unknown order id
\* reports failure without creating or changing any order.
C15_FailedOperationsChangeNothing ==
    [][\A n \in 0..MaxEngineOrders, kw \in UpdateKwargs :
          /\ (/\ n \in DOMAIN orders
              /\ InvalidTransition(orders[n].status, kw.status)
              /\ update_order(n, kw))
                 => (last_return' = "false" /\ orders' = orders)
          /\ (/\ n \notin DOMAIN orders
              /\ (update_order(n, kw) \/ cancel_order(n)))
                 => (/\ last_return' = "false"
                     /\ orders' = orders
                     /\ order_counter' = order_counter)]_vars

\* C16: a fill applied to an order (its cumulative filled quantity grows)
\* leaves it PartiallyFilled while the cumulative filled quantity is below
\* the requested quantity and makes it Filled exactly when the two are
\* equal.
C16_FillSetsStatus ==
    [][\A n \in DOMAIN orders :
          orders'[n].filled_quantity > orders[n].filled_quantity
              => orders'[n].status =
                    IF orders'[n].filled_quantity = orders'[n].quantity
                    THEN "filled" ELSE "partially_filled"]_vars

\* C17: execute_market_order fills a BUY at current_price + current_price *
\* slippage and a SELL at current_price - current_price * slippage, and
\* sets the fee to filled quantity * fill price * commission_rate.
C17_SlippageAndFee ==
    [][\A n \in 1..MaxOrders, p \in MarketPrices, c \in CommissionRates,
         sl \in SlippageRates :
          execute_market_order(n, p, c, sl)
              => /\ om_orders'[n].avg_fill_price =
                       IF om_orders[n].side = "buy"
                       THEN p + (p * sl) \div 10000
                       ELSE p - (p * sl) \div 10000
                 /\ om_orders'[n].commission * 10000 =
                       om_orders'[n].filled_quantity
                           * om_orders'[n].avg_fill_price * c]_vars

\* A SELL market order has been filled below the market price, with a fee
C17_Witness ==
    \E n \in DOMAIN om_orders :
        /\ om_orders[n].side = "sell"
        /\ om_orders[n].order_type = "market"
        /\ om_orders[n].status = "filled"
        /\ om_orders[n].slippage > 0
        /\ om_orders[n].avg_fill_price
              = 2000000 - om_orders[n].slippage
        /\ om_orders[n].commission > 0

-----------------------------------------------------------------------------
(***************************************************************************)
(* Further claims about the position ledger                                *)
(***************************************************************************)

\* The PnL of one unit of the position closed at close_price
UnitPnl(pos, close_price) ==
    IF pos.side = "long" THEN close_price - pos.entry_price
                         ELSE pos.entry_price - close_price

\* C18: when a close is at least as large as the open size, PnL is realized
\* only for the portion that was open and the stored size never becomes
\* negative.
C18_CloseRealizesOpenPortion ==
    [][\A n \in 1..MaxPositions, p \in Prices, c \in 0..(MaxSize + 1) :
          PositionManager_close_position(n, p, c)
              => /\ positions'[n].size >= 0
                 /\ positions'[n].realized_pnl - positions[n].realized_pnl
                       = UnitPnl(positions[n], p)
                           * (positions[n].size - positions'[n].size)]_vars

-----------------------------------------------------------------------------
(***************************************************************************)
(* Further claims about the execution bridge                               *)
(***************************************************************************)

\* The requests a step has created
NewRequests == (DOMAIN requests') \ (DOMAIN requests)

\* C19: once stop() has been called, a signal delivered by the strategy
\* callback or through force_execute_signal is neither enqueued nor
\* executed.
C19_NoSignalAfterStop ==
    [][bridge_status = "stopped"
          => \A r \in NewRequests :
                /\ \A i \in DOMAIN signal_queue' : signal_queue'[i] # r
                /\ r \notin blocked_puts'
                /\ r \notin pending_requests']_vars

\* C20: while stop() waits for the queue and the in-flight requests to
\* drain, the bridge is not yet declared STOPPED, and the requests still in
\* the queue have a worker that can process them.
C20_StoppedAfterDrain ==
    stop_pc = "waiting"
        => /\ bridge_status # "stopped"
           /\ signal_queue # <<>> => \E w \in Workers : tasks[w].pc # "dead"

\* C21: when stop() returns, no position with a non-zero size remains in
\* the ledger.
C21_StopClosesPositions ==
    [][(stop_pc = "waiting" /\ stop_pc' = "idle")
          => (rm_position'.exists => rm_position'.size = 0)]_vars

\* C22: a worker takes the requests in the order they were enqueued: when
\* it starts to execute a request, no request enqueued before it is still
\* waiting in the queue.  (Requests are numbered in the order the callback
\* creates them, which is the order they enter a queue that never fills.)
C22_WorkerFifo ==
    [][\A w \in Workers :
          (tasks[w].pc = "idle" /\ tasks'[w].pc = "risk")
              => \A i \in DOMAIN signal_queue' :
                    signal_queue'[i] > tasks'[w].req]_vars

-----------------------------------------------------------------------------
(***************************************************************************)
(* Claims about the risk events                                            *)
(***************************************************************************)

\* An EXTREME drawdown-limit or daily-loss-limit event has been handled
PauseEventHandled ==
    \E i \in DOMAIN risk_events :
        /\ risk_events[i].severity = "extreme"
        /\ risk_events[i].event_type \in {"drawdown_limit", "daily_loss_limit"}

\* C23: once an EXTREME drawdown-limit or daily-loss-limit event has been
\* handled, admissions are paused: a check_trading_risk call made after it
\* is not approved.
C23_ExtremeEventPausesAdmission ==
    (PauseEventHandled /\ risk_result # NoResult) => ~risk_result.approved

\* C24: dynamic_limits is modified only by _adjust_dynamic_limits and by
\* the emergency path (an EXTREME event handled by _handle_risk_event);
\* admission checks, fills, market data, price anomalies, the portfolio
\* loop and the event cleanup leave every field of it unchanged.
C24_LimitsWriters ==
    [][dynamic_limits' # dynamic_limits
          => \/ _adjust_dynamic_limits
             \/ \E e \in GivenEvents :
                   e[2] = "extreme" /\ _handle_risk_event(e[1], e[2])]_vars

\* The emergency path has shrunk the limits, events of lower severity have
\* been handled and cleaned up, and an admission check has run since
C24_Witness ==
    /\ emergency_actions > 0
    /\ dynamic_limits.max_leverage < DefaultLimits.max_leverage
    /\ \E i \in DOMAIN risk_events : risk_events[i].severity # "extreme"
    /\ active_events = {}
    /\ risk_result # NoResult
    /\ portfolio_metrics.leverage > 0

\* C25: portfolio_metrics is written only by the periodic refresh of the
\* portfolio loop; no other operation changes what a reader sees in it.
C25_MetricsWrittenByRefreshOnly ==
    [][portfolio_metrics' # portfolio_metrics
          => _portfolio_risk_monitor]_vars

\* The events of a history that _handle_risk_event has been given
HistoryIds(events) == {events[i].event_id : i \in DOMAIN events}

\* C26: an event leaves the active map only on resolution or expiry and
\* stays in the history then; cleanup removes from the history only
\* resolved events older than 24 hours; and the history stays bounded: of a
\* history whose events are all older than 24 hours and no longer active,
\* a cleanup pass keeps less than the whole.
C26_EventLifecycle ==
    [][/\ \A id \in active_events \ active_events' :
             \E i \in DOMAIN risk_events :
                /\ risk_events[i].event_id = id
                /\ risk_events[i].old \/ risk_events[i].resolved
                /\ id \in HistoryIds(risk_events')
       /\ \A i \in DOMAIN risk_events :
             risk_events[i].event_id \notin HistoryIds(risk_events')
                 => risk_events[i].old /\ risk_events[i].resolved
       /\ (/\ risk_events # <<>>
           /\ active_events = {}
           /\ \A i \in DOMAIN risk_events : risk_events[i].old)
             => Len(SelectEvents(risk_events)) < Len(risk_events)]_vars

\* The history holds every event that was ever handled
C26_HistoryNeverShrinks == Len(risk_events) = events_handled

\* C27: every request whose result in the history is a rejection (risk
\* block, no order parameters) or an error has had the error callbacks
\* triggered for it, and every fill delivered has had the execution
\* callbacks triggered with the order.
C27_CallbacksByOutcome ==
    /\ \A i \in DOMAIN execution_history :
          execution_history[i].error_message \in {"risk", "params", "timeout"}
              => "error_callbacks(error)"
                     \in notified[execution_history[i].request_id]
    /\ \A o \in DOMAIN exchange_orders :
          delivered[o] > 0 => "execution_callbacks(order)" \in notified[o]

\* C28: a request is recorded as failed at place_order only after
\* place_order has been tried retry_attempts times for its order.
C28_RetriesBeforeRejection ==
    \A i \in DOMAIN execution_history :
        execution_history[i].error_message = "place_failed"
            => exchange_orders[execution_history[i].request_id].attempts
                   = retry_attempts

\* C29: a price update emits a market order closing the whole position
\* exactly when the price has crossed the stored stop-loss or take-profit
\* level, and the order goes through the pipeline of signal orders: a risk
\* check is made for it, a result is recorded and the order is counted.
C29_StopOrdersThroughPipeline ==
    [][\A p \in TickPrices :
          _on_price_update(p)
              => /\ \A i \in (DOMAIN stop_orders') \ (DOMAIN stop_orders) :
                       /\ stop_orders'[i].order_type = "market"
                       /\ stop_orders'[i].size = Abs(rm_position.size)
                       /\ stop_orders'[i].side =
                             IF rm_position.size > 0 THEN "sell" ELSE "buy"
                 /\ risk_stats'.total_risk_checks
                       > risk_stats.total_risk_checks
                 /\ Len(execution_history') > Len(execution_history)
                 /\ metrics'.total_orders_placed
                       > metrics.total_orders_placed]_vars


\* C30: when a stage of check_trading_risk raises, the call hands back a
\* result with approved = false and action = block, and a bridge request
\* whose risk check failed that way ends rejected (a failed result in the
\* history, the rejection counted, the request no longer pending) with no
\* order placed
C30_RaisedCheckBlocksAndRejects ==
    [][(/\ risk_result'.stage = "exception"
        /\ risk_stats'.total_risk_checks > risk_stats.total_risk_checks)
          => /\ ~risk_result'.approved
             /\ risk_result'.action = "block"
             /\ exchange_orders' = exchange_orders
             /\ \A t \in Tasks :
                   (tasks[t].pc = "risk" /\ tasks'[t] # tasks[t])
                      => /\ tasks'[t].pc = "idle"
                         /\ execution_history' =
                               Append(execution_history,
                                      ExecutionResult(tasks[t].req, FALSE,
                                                      "risk"))
                         /\ metrics'.total_signals_rejected
                               = metrics.total_signals_rejected + 1
                         /\ tasks[t].req \notin pending_requests'
                         /\ tasks[t].req \notin DOMAIN exchange_orders']_vars

\* A request of the bridge has been rejected by a risk check that raised
C30_Witness ==
    /\ risk_result.stage = "exception"
    /\ Len(execution_history) > 0
    /\ LET last == execution_history[Len(execution_history)]
       IN  /\ ~last.success
           /\ last.error_message = "risk"
           /\ last.request_id \notin DOMAIN exchange_orders
    /\ metrics.total_signals_rejected > 0


\* The positions of execution_history that hold a result of request r
ResultsOf(r) ==
    {i \in DOMAIN execution_history : execution_history[i].request_id = r}

\* C31: every request the pipeline has taken has one outcome: at most one
\* ExecutionResult in execution_history under any interleaving of the
\* worker with the timeout watchdog, and a request recorded as timed out
\* has neither an order at the exchange nor a result that records it as
\* executed.
C31_OneOutcomePerRequest ==
    \A r \in 1..Len(requests) :
        /\ Cardinality(ResultsOf(r)) <= 1
        /\ r \in TimedOut
              => /\ r \notin DOMAIN exchange_orders
                 /\ \A i \in ResultsOf(r) : ~execution_history[i].success


\* The signed size of an order handed to the exchange
SignedSize(order) == IF order.side = "buy" THEN order.size ELSE 0 - order.size

\* The sum of the signed sizes of the orders of os
RECURSIVE SignedSum(_, _)
SignedSum(placed, os) ==
    IF os = {} THEN 0
    ELSE LET o == CHOOSE x \in os : TRUE
         IN  SignedSize(placed[o]) + SignedSum(placed, os \ {o})

\* The orders admitted for requests that tasks other than t are still
\* executing
ConcurrentOrders(t) ==
    {tasks[u].req : u \in {v \in Tasks \ {t} : tasks[v].pc = "place"}}

\* C32: when a request is admitted while another task is still executing
\* an admitted request for the symbol, the position value that results from
\* the ledger's position and the admitted orders stays within
\* balance * dynamic max_position_size (the second request is not admitted
\* against the position snapshot the first was admitted against).
C32_ConcurrentAdmissionsWithinLimit ==
    [][\A t \in Tasks :
          (/\ tasks[t].pc = "risk"
           /\ tasks'[t].pc = "place"
           /\ ConcurrentOrders(t) # {})
              => LET resulting ==
                        current_size
                        + SignedSum(exchange_orders', ConcurrentOrders(t))
                        + SignedSize(exchange_orders'[tasks[t].req])
                 IN  Abs(resulting) * requests[tasks[t].req].current_price
                        * 100
                        <= get_total_balance
                              * dynamic_limits.max_position_size]_vars


\* C33: whenever check_trading_risk has returned approved with action allow
\* for (size, price), the notional size * price is at most
\* balance * dynamic max_position_size, whatever the side and the position.
C33_NotionalLimitOnApproval ==
    (/\ risk_result.stage # "none"
     /\ risk_result.approved
     /\ risk_result.action = "allow")
        => risk_request.size * risk_request.price * 100
              <= get_total_balance * dynamic_limits.max_position_size


\* The total size of the closing orders of a sequence
RECURSIVE TotalSize(_)
TotalSize(closing) ==
    IF closing = <<>> THEN 0
    ELSE Head(closing).size + TotalSize(Tail(closing))

\* C34: for a long position that only buys have built (it has never been
\* reduced or closed), the closing orders the bridge has emitted over the
\* price updates add up to at most the position's size: a level that stays
\* breached over several updates yields one closing order, not one per
\* update.
C34_OneClosingOrderPerBreach ==
    (/\ rm_position.exists
     /\ rm_position.size > 0
     /\ \A o \in DOMAIN exchange_orders : exchange_orders[o].side = "buy")
        => TotalSize(stop_orders) <= rm_position.size


\* The request has an ExecutionResult: it has been executed or rejected
HasOutcome(r) ==
    \E i \in DOMAIN execution_history : execution_history[i].request_id = r

\* The request is in the signal queue
Queued(r) ==
    \E i \in DOMAIN signal_queue : signal_queue[i] = r

\* C35: pause and resume starve no request: under fair scheduling a request
\* that is queued while the bridge is RUNNING is eventually executed or
\* rejected, unless the bridge leaves RUNNING again (workers putting
\* requests back into a full queue while producers wait do not deadlock).
C35_ResumedQueueDrains ==
    \A r \in 1..MaxSignals :
        (Queued(r) /\ bridge_status = "running")
            ~> (HasOutcome(r) \/ bridge_status # "running")


\* C36: under any sequence of start, stop, pause and resume, is_running is
\* true exactly when the status is RUNNING or PAUSED; the status becomes
\* PAUSED only from RUNNING, and PAUSED is left for RUNNING (resume) or for
\* STOPPED (stop) only.
C36_RunningFlagMatchesStatus ==
    /\ [](is_running <=> bridge_status \in {"running", "paused"})
    /\ [][/\ (bridge_status' = "paused" /\ bridge_status # "paused")
                => bridge_status = "running"
          /\ (bridge_status = "paused" /\ bridge_status' # "paused")
                => bridge_status' \in {"running", "stopped"}]_vars

\* The bridge has been started, stopped, started again and paused
C36_Witness ==
    /\ bridge_status = "paused"
    /\ is_running
    /\ handlers >= 2


\* C37: after any sequence of start and stop calls, the bridge's handlers
\* are registered with the data feed, the strategy engine and the execution
\* engine at most once (so that one signal is handed to _on_signal_generated
\* once and yields one queued request), and at most one instance of the
\* worker and of the monitoring loop is alive.
C37_HandlersRegisteredOnce ==
    /\ handlers <= 1
    /\ Cardinality({w \in Workers : tasks[w].pc # "dead"})
          <= max_concurrent_executions


\* C38: the trading engine can be restarted: whenever the status is RUNNING
\* (after a stop and a new start too) the trading loop and the data loop
\* are in their loops and neither the stop event nor the pause event of an
\* earlier run is set, so the loops iterate rather than return or idle; and
\* the status is STOPPED only when no loop is active.
C38_RunningMeansLoopsIterate ==
    /\ trading_status = "running"
          => /\ ~stop_event
             /\ ~pause_event
             /\ trading_task = "active"
             /\ data_task = "active"
    /\ trading_status = "stopped"
          => /\ trading_task # "active"
             /\ data_task # "active"

\* The total filled quantity of the book's filled orders of one side
RECURSIVE FilledThrough(_, _)
FilledThrough(side, n) ==
    IF n = 0 THEN 0
    ELSE FilledThrough(side, n - 1)
         + IF om_orders[n].side = side /\ om_orders[n].status = "filled"
           THEN om_orders[n].filled_quantity
           ELSE 0

FilledQuantity(side) == FilledThrough(side, Len(om_orders))

\* C39: the engine's position_size is non-negative and equals the filled
\* BUY quantity minus the filled SELL quantity of the order manager's
\* orders, and the stop and take-profit orders attached to one buy (created
\* one after the other by one execute_buy) never both fill
C39_PositionMatchesFilledOrders ==
    /\ position_size >= 0
    /\ position_size = FilledQuantity("buy") - FilledQuantity("sell")
    /\ \A n \in DOMAIN om_orders :
          /\ n + 1 \in DOMAIN om_orders
          /\ om_orders[n].order_type = "stop"
          /\ om_orders[n + 1].order_type = "take_profit"
          => ~ /\ om_orders[n].status = "filled"
               /\ om_orders[n + 1].status = "filled"

\* C40: a partially closed position that still has size can be closed
\* further by PositionManager.close_position (some call acts on it), and the
\* ledger keeps every position it created, closed ones included
C40_PartialCloseCanContinue ==
    /\ \A n \in DOMAIN positions :
          /\ positions[n].status = "partially_closed"
          /\ positions[n].size > 0
          => ENABLED (\E p \in Prices, c \in 0..(MaxSize + 1) :
                         PositionManager_close_position(n, p, c))
    /\ DOMAIN positions = 1..position_counter
=============================================================================
